---- MODULE Spec2Model ----
(***************************************************************************)
(* The S3-FIFO eviction engine of multicache (s3fifo.go): one cache of     *)
(* shards, each with an intrusive Small and Main queue, a death-row ring,  *)
(* a ghost (two bloom filters and a frequency ring) and a key -> entry     *)
(* map.  Entries are heap objects named by an id; 0 is the nil pointer.    *)
(* Every operation that runs under the shard lock is one atomic step.      *)
(***************************************************************************)
EXTENDS Integers, Sequences, FiniteSets, TLC

\* ------------------------------------------------------------------ bounds
\* Keys a shard can hold, and heap slots per shard.
NumKeys == 4
MaxEntries == 8
\* Sizes the cache is constructed with: 1..MaxCapacity.
MaxCapacity == 2
\* Spec: keys, values and calls of the sequential runs.
NumCoreKeys == 3
NumValues == 2
MaxOps == 7
\* SpecWide: calls of the runs over all keys with one value.
MaxWideOps == 7
\* SpecHits: threads, keys and calls of the runs with overlapping calls.
NumThreads == 2
NumHitKeys == 1
MaxHitOps == 9
\* SpecSharded: the size the cache is constructed with (two shards) and calls.
ShardedSize == 2048
MaxShardedOps == 4
\* SpecWriters: keys and calls of the runs with overlapping sets.
NumWriterKeys == 2
MaxWriterOps == 4
\* SpecFS, SpecFSCalls: keys of the local-file store, inodes of its directory,
\* file writes a record takes, and calls of the overlapping and of the
\* sequential runs.
NumStoreKeys == 2
MaxInodes == 4
MaxChunks == 2
MaxFsOps == 3
MaxFsCalls == 3
\* SpecCo, SpecFlight: calls of the tiered coordinator, the ttl they pass, the
\* slots of the async-write queue, and GetSet calls.
MaxCoCalls == 3
NumCallers == 1
MaxTTL == 1
MaxQueue == 1
MaxFlightCalls == 3
NumFlightKeys == 2
\* SpecRow: keys and calls of the runs with overlapping gets of a death-row key.
NumRowKeys == 2
MaxRowOps == 4
NumEvKeys == 4
NumGhostKeys == 3
NumLoopKeys == 3
MaxLoopOps == 6
MaxEvOps == 7
MaxGhostOps == 7
MaxReturnOps == 3
\* SpecNew: the sizes handed to newS3FIFO are those within MaxSizeSlack of the
\* halves of the largest int, down to halving MaxSizeShift times.
MaxSizeShift == 30
MaxSizeSlack == 1
\* SpecFSRace: keys and calls of the runs where records expire under running calls.
NumRaceKeys == 1
MaxRaceOps == 3
\* SpecStale: free calls after the script that leaves a deleted key on death row.
MaxStaleOps == 2
\* SpecKeys: the characters that end the textual keys handed to ValidateKey.
MaxTextLen == 2
\* SpecWarm: calls of the runs that record what was set.
MaxWarmOps == 5
\* SpecTTL: keys, clock range and calls of the runs with expiry.
NumTTLKeys == 2
MaxTime == 2
MaxTTLOps == 5

\* ------------------------------------------------------- program constants
maxFreq == 7
deathRowLen == 8
ghostRingLen == 256
smallThreshPermille == 247
demoteAtPeak == 4
resurrectFreq == 3

Keys == 1..NumKeys
CoreKeys == 1..NumCoreKeys
TTLKeys == 1..NumTTLKeys
HitKeys == 1..NumHitKeys
WriterKeys == 1..NumWriterKeys
StoreKeys == 1..NumStoreKeys
Callers == 1..NumCallers
RowKeys == 1..NumRowKeys
EvKeys == 1..NumEvKeys
GhostKeys == 1..NumGhostKeys
LoopKeys == 1..NumLoopKeys
FlightKeys == 1..NumFlightKeys
Inodes == 1..MaxInodes
Threads == 1..NumThreads
Values == 1..NumValues
EntIds == 1..MaxEntries
Nil == 0
Times == 0..MaxTime

\* The zero value of V, returned with a miss.
zeroV == 0

\* ------------------------------------------------------------------ entry
\* entry[K, V]: the zero value of the struct; also what an unused heap slot holds.
entry ==
  [key |-> 0, value |-> zeroV, prev |-> Nil, next |-> Nil, hash |-> 0,
   expiryNano |-> 0, freq |-> 0, peakFreq |-> 0,
   inSmall |-> FALSE, onDeathRow |-> FALSE]

\* entryList: the zero value is the empty list.
entryList == [head |-> Nil, tail |-> Nil, len |-> 0]

\* hashInt64: an integer mixer; injective on the keys of the model and not the identity.
hashInt64(k) == (k * 5 + 3) % 16

\* ------------------------------------------------------------ bloom filter
\* A filter is the set of hashes added since its last reset and the count of adds.
newBloomFilter == [bits |-> {}, entries |-> 0]

Contains(b, h) == h \in b.bits

Add(b, h) == [bits |-> b.bits \cup {h}, entries |-> b.entries + 1]

Reset(b) == newBloomFilter

\* ------------------------------------------------------------- ghost ring
\* ghostFreqRing: slots holds the written prefix of the 256-slot arrays (a slot
\* never written holds hash 0 and freq 0); pos is the uint8 write index.
ghostFreqRing == [slots |-> <<>>, pos |-> 0]

add(r, h, freq) ==
  [slots |-> IF r.pos < Len(r.slots)
             THEN [r.slots EXCEPT ![r.pos + 1] = <<h, freq>>]
             ELSE Append(r.slots, <<h, freq>>),
   pos |-> (r.pos + 1) % ghostRingLen]

\* lookup scans the arrays from index 0 and returns the first slot holding h.
lookup(r, h) ==
  LET hits == {i \in 1..Len(r.slots) : r.slots[i][1] = h}
      first == CHOOSE i \in hits : \A j \in hits : i <= j
  IN IF hits # {} THEN [freq |-> r.slots[first][2], ok |-> TRUE]
     ELSE IF h = 0 /\ Len(r.slots) < ghostRingLen THEN [freq |-> 0, ok |-> TRUE]
     ELSE [freq |-> 0, ok |-> FALSE]

\* ------------------------------------------------------------------ lists
\* A working state W is a shard's fields together with the parent's
\* totalEntries (total) and whether the operation has panicked (panic).
\* q names the list: "small" or "main".

pushBack(W, q, e) ==
  LET l == W[q]
      h1 == [W.ent EXCEPT ![e].prev = l.tail, ![e].next = Nil]
      h2 == IF l.tail # Nil THEN [h1 EXCEPT ![l.tail].next = e] ELSE h1
      l2 == [head |-> IF l.tail # Nil THEN l.head ELSE e,
             tail |-> e, len |-> l.len + 1]
  IN [W EXCEPT ![q] = l2, !.ent = h2]

remove(W, q, e) ==
  LET l == W[q]
      p == W.ent[e].prev
      h1 == IF p # Nil THEN [W.ent EXCEPT ![p].next = W.ent[e].next] ELSE W.ent
      hd == IF p # Nil THEN l.head ELSE W.ent[e].next
      n == h1[e].next
      h2 == IF n # Nil THEN [h1 EXCEPT ![n].prev = h1[e].prev] ELSE h1
      tl == IF n # Nil THEN l.tail ELSE h1[e].prev
      h3 == [h2 EXCEPT ![e].prev = Nil, ![e].next = Nil]
  IN [W EXCEPT ![q] = [head |-> hd, tail |-> tl, len |-> l.len - 1], !.ent = h3]

\* ------------------------------------------------------------------- heap
\* The entries the shard still points to: from the map, the death row and the
\* list ends, and from those along prev and next.  extra holds the pointers that
\* running readers hold.
Roots(S) ==
  ({S.entries[k] : k \in Keys} \cup {S.deathRow[i] : i \in 0..(deathRowLen - 1)}
     \cup {S.small.head, S.small.tail, S.main.head, S.main.tail}) \ {Nil}

RECURSIVE Closure(_, _)
Closure(S, R) ==
  LET R2 == (R \cup {S.ent[e].prev : e \in R} \cup {S.ent[e].next : e \in R}) \ {Nil}
  IN IF R2 = R THEN R ELSE Closure(S, R2)

Live(S, extra) == Closure(S, Roots(S) \cup (extra \ {Nil}))

\* An entry nothing points to is garbage: its slot holds the zero entry again.
collect(S, extra) ==
  LET live == Live(S, extra)
  IN [S EXCEPT !.ent = [i \in EntIds |-> IF i \in live THEN S.ent[i] ELSE entry]]

FreeIds(S) == {i \in EntIds : S.ent[i].key = 0}

\* &entry[K, V]{...}: a fresh object, here the lowest unused slot.
newEntry(S) == CHOOSE i \in FreeIds(S) : \A j \in FreeIds(S) : i <= j

\* ------------------------------------------------------------------ ghost
addToGhost_resetsNewAging(W, h, peakFreq) ==
  LET fresh == ~Contains(W.ghostActive, h)
      W1 == IF fresh
            THEN [W EXCEPT !.ghostActive = Add(W.ghostActive, h),
                           !.ghostFreqRng = IF peakFreq >= 2
                                            THEN add(W.ghostFreqRng, h, peakFreq)
                                            ELSE W.ghostFreqRng]
            ELSE W
  IN IF W1.ghostActive.entries >= W1.ghostCap
     THEN [W1 EXCEPT !.ghostActive = W1.ghostAging,
                     !.ghostAging = Reset(W1.ghostActive)]
     ELSE W1

addToGhost(W, h, peakFreq) ==
  LET fresh == ~Contains(W.ghostActive, h)
      W1 == IF fresh
            THEN [W EXCEPT !.ghostActive = Add(W.ghostActive, h),
                           !.ghostFreqRng = IF peakFreq >= 2
                                            THEN add(W.ghostFreqRng, h, peakFreq)
                                            ELSE W.ghostFreqRng]
            ELSE W
  IN IF W1.ghostActive.entries >= W1.ghostCap
     THEN [W1 EXCEPT !.ghostActive = Reset(W1.ghostAging),
                     !.ghostAging = W1.ghostActive]
     ELSE W1

\* -------------------------------------------------------------- death row
sendToDeathRow_keepsOld(W, e) ==
  [W EXCEPT !.ent[e].onDeathRow = TRUE,
            !.deathRow[W.deathRowPos] = e,
            !.deathRowPos = (W.deathRowPos + 1) % deathRowLen,
            !.total = W.total - 1]

sendToDeathRow(W, e) ==
  LET old == W.deathRow[W.deathRowPos]
      W1 == IF old # Nil
            THEN [addToGhost([W EXCEPT !.entries[W.ent[old].key] = Nil],
                             W.ent[old].hash, W.ent[old].peakFreq)
                   EXCEPT !.ent[old].onDeathRow = FALSE]
            ELSE W
  IN [W1 EXCEPT !.ent[e].onDeathRow = TRUE,
                !.deathRow[W.deathRowPos] = e,
                !.deathRowPos = (W.deathRowPos + 1) % deathRowLen,
                !.total = W1.total - 1]

\* --------------------------------------------------------------- eviction
\* Reading the head of a list whose len is positive and whose head is nil
\* dereferences a nil pointer: the operation panics.
RECURSIVE evictFromMain(_)
evictFromMain(W) ==
  IF W.main.len <= 0 THEN W
  ELSE LET e == W.main.head IN
    IF e = Nil THEN [W EXCEPT !.panic = TRUE]
    ELSE LET f == W.ent[e].freq IN
      IF f = 0
      THEN LET W1 == remove(W, "main", e) IN
           IF W1.ent[e].peakFreq >= demoteAtPeak
           THEN pushBack([W1 EXCEPT !.ent[e].freq = 1, !.ent[e].inSmall = TRUE],
                         "small", e)
           ELSE sendToDeathRow(W1, e)
      ELSE evictFromMain(
             pushBack([remove(W, "main", e) EXCEPT !.ent[e].freq = f - 1], "main", e))

RECURSIVE evictFromSmall(_)
evictFromSmall(W) ==
  LET mcap == (W.capacity * 9) \div 10 IN
  IF W.panic \/ W.small.len <= 0 THEN W
  ELSE LET e == W.small.head IN
    IF e = Nil THEN [W EXCEPT !.panic = TRUE]
    ELSE IF W.ent[e].freq < 2
    THEN sendToDeathRow(remove(W, "small", e), e)
    ELSE LET W1 == pushBack([remove(W, "small", e) EXCEPT !.ent[e].freq = 0,
                                                         !.ent[e].inSmall = FALSE],
                            "main", e)
             W2 == IF W1.main.len > mcap THEN evictFromMain(W1) ELSE W1
         IN evictFromSmall(W2)

\* ------------------------------------------------------------- operations
\* The hit path shared by get and the update path of set: bump freq below the
\* cap and raise peakFreq to the new freq.
hit(W, e) ==
  IF W.ent[e].freq < maxFreq
  THEN LET newFreq == W.ent[e].freq + 1 IN
       [W EXCEPT !.ent[e].freq = newFreq,
                 !.ent[e].peakFreq = IF newFreq > W.ent[e].peakFreq
                                     THEN newFreq ELSE W.ent[e].peakFreq]
  ELSE W

miss(W) == [W EXCEPT !.val = zeroV, !.found = FALSE]

\* resurrectFromDeathRow leaving the live count as it is.
resurrectFromDeathRow_noCount(W, key) ==
  LET e == W.entries[key] IN
  IF e = Nil \/ ~W.ent[e].onDeathRow
  THEN [W EXCEPT !.val = zeroV, !.found = (e # Nil)]
  ELSE LET slots == {i \in 0..(deathRowLen - 1) : W.deathRow[i] = e}
           W1 == IF slots # {}
                 THEN [W EXCEPT !.deathRow[CHOOSE i \in slots : \A j \in slots : i <= j] = Nil]
                 ELSE W
           W2 == [W1 EXCEPT !.ent[e].onDeathRow = FALSE,
                            !.ent[e].inSmall = FALSE,
                            !.ent[e].freq = resurrectFreq,
                            !.ent[e].peakFreq = resurrectFreq]
           W3 == pushBack(W2, "main", e)
       IN [W3 EXCEPT !.val = W3.ent[e].value, !.found = TRUE]

resurrectFromDeathRow(W, key) ==
  LET e == W.entries[key] IN
  IF e = Nil \/ ~W.ent[e].onDeathRow
  THEN [W EXCEPT !.val = zeroV, !.found = (e # Nil)]
  ELSE LET slots == {i \in 0..(deathRowLen - 1) : W.deathRow[i] = e}
           W1 == IF slots # {}
                 THEN [W EXCEPT !.deathRow[CHOOSE i \in slots : \A j \in slots : i <= j] = Nil]
                 ELSE W
           W2 == [W1 EXCEPT !.ent[e].onDeathRow = FALSE,
                            !.ent[e].inSmall = FALSE,
                            !.ent[e].freq = resurrectFreq,
                            !.ent[e].peakFreq = resurrectFreq]
           W3 == pushBack(W2, "main", e)
       IN [W3 EXCEPT !.total = W3.total + 1, !.val = W3.ent[e].value, !.found = TRUE]

\* shard.get deleting an expired entry from the map when it reports the miss.
get_deletesExpired(W, key, t) ==
  LET e == W.entries[key] IN
  IF e = Nil THEN miss(W)
  ELSE IF W.ent[e].onDeathRow THEN resurrectFromDeathRow(W, key)
  ELSE IF W.ent[e].expiryNano # 0 /\ t > W.ent[e].expiryNano
       THEN [miss(W) EXCEPT !.entries[key] = Nil]
  ELSE [hit(W, e) EXCEPT !.val = W.ent[e].value, !.found = TRUE]

\* shard.get at wall-clock time t.
get(W, key, t) ==
  LET e == W.entries[key] IN
  IF e = Nil THEN miss(W)
  ELSE IF W.ent[e].onDeathRow THEN resurrectFromDeathRow(W, key)
  ELSE IF W.ent[e].expiryNano # 0 /\ t > W.ent[e].expiryNano THEN miss(W)
  ELSE [hit(W, e) EXCEPT !.val = W.ent[e].value, !.found = TRUE]

update(W, old, value, expiryNano) ==
  hit([W EXCEPT !.ent[old].value = value, !.ent[old].expiryNano = expiryNano], old)

setWithHash_evictsInWarmup(W, key, value, expiryNano, hash, pcap) ==
  LET old == W.entries[key] IN
  IF old # Nil
  THEN update(W, old, value, expiryNano)
  ELSE
    LET e == newEntry(W)
        W0 == [W EXCEPT !.ent[e] = [entry EXCEPT !.key = key, !.value = value,
                                                 !.expiryNano = expiryNano,
                                                 !.hash = hashInt64(key),
                                                 !.inSmall = TRUE]]
        W1 == IF W0.small.len > 0 THEN evictFromSmall(W0) ELSE W0
        W2 == pushBack(W1, "small", e)
    IN [W2 EXCEPT !.entries[key] = e, !.total = W2.total + 1]

\* shard.setWithHash; pcap is the parent's capacity, hash = 0 asks for the hasher.
setWithHash(W, key, value, expiryNano, hash, pcap) ==
  LET old == W.entries[key] IN
  IF old # Nil
  THEN update(W, old, value, expiryNano)
  ELSE
    LET e == newEntry(W)
        h == IF hash = 0 THEN hashInt64(key) ELSE hash
        W0 == [W EXCEPT !.ent[e] = [entry EXCEPT !.key = key, !.value = value,
                                                 !.expiryNano = expiryNano, !.hash = h]]
        full == W.total >= pcap
    IN IF ~W.warmupComplete /\ ~full
       THEN LET W1 == pushBack([W0 EXCEPT !.ent[e].inSmall = TRUE], "small", e)
            IN [W1 EXCEPT !.entries[key] = e, !.total = W1.total + 1]
       ELSE
         LET W1 == [W0 EXCEPT !.warmupComplete = TRUE]
             inGhost == Contains(W1.ghostActive, h) \/ Contains(W1.ghostAging, h)
             peak == lookup(W1.ghostFreqRng, h)
             W2 == IF ~full THEN [W1 EXCEPT !.ent[e].inSmall = TRUE]
                   ELSE IF inGhost /\ peak.ok
                   THEN [W1 EXCEPT !.ent[e].inSmall = FALSE,
                                   !.ent[e].freq = peak.freq,
                                   !.ent[e].peakFreq = peak.freq]
                   ELSE [W1 EXCEPT !.ent[e].inSmall = ~inGhost]
             W3 == IF ~full THEN W2
                   ELSE IF W2.main.len > 0 /\ W2.small.len <= W2.smallThresh
                   THEN evictFromMain(W2)
                   ELSE IF W2.small.len > 0 THEN evictFromSmall(W2)
                   ELSE W2
             W4 == pushBack(W3, IF W3.ent[e].inSmall THEN "small" ELSE "main", e)
         IN IF W3.panic THEN W3
            ELSE [W4 EXCEPT !.entries[key] = e, !.total = W4.total + 1]

delete_skipsDeathRow(W, key) ==
  LET e == W.entries[key] IN
  IF e = Nil \/ W.ent[e].onDeathRow THEN W
  ELSE LET W1 == remove(W, IF W.ent[e].inSmall THEN "small" ELSE "main", e)
       IN [W1 EXCEPT !.entries[key] = Nil, !.total = W1.total - 1]

\* shard.delete
delete(W, key) ==
  LET e == W.entries[key] IN
  IF e = Nil THEN W
  ELSE LET W1 == remove(W, IF W.ent[e].inSmall THEN "small" ELSE "main", e)
       IN [W1 EXCEPT !.entries[key] = Nil, !.total = W1.total - 1]

flush_keepsDeathRow(W) ==
  [W EXCEPT !.val = Cardinality({k \in Keys : W.entries[k] # Nil}),
            !.entries = [k \in Keys |-> Nil],
            !.small = entryList,
            !.main = entryList,
            !.ghostActive = Reset(W.ghostActive),
            !.ghostAging = Reset(W.ghostAging),
            !.ghostFreqRng = ghostFreqRing]

\* shard.flush; val carries the returned count.
flush(W) ==
  [W EXCEPT !.val = Cardinality({k \in Keys : W.entries[k] # Nil}),
            !.entries = [k \in Keys |-> Nil],
            !.small = entryList,
            !.main = entryList,
            !.ghostActive = Reset(W.ghostActive),
            !.ghostAging = Reset(W.ghostAging),
            !.ghostFreqRng = ghostFreqRing,
            !.deathRow = [i \in 0..(deathRowLen - 1) |-> Nil],
            !.deathRowPos = 0]

\* ------------------------------------------------------------ construction
maxShards == 2048
defaultSize == 16384
MaxProcs == 2

Min2(a, b) == IF a < b THEN a ELSE b
Max2(a, b) == IF a > b THEN a ELSE b

\* 1 << (bits.Len(n) - 1): the largest power of two that is at most n (n >= 1).
RECURSIVE roundPow2(_)
roundPow2(n) == IF n <= 1 THEN 1 ELSE 2 * roundPow2(n \div 2)

\* newS3FIFO: the effective size, the shard count and the per-shard capacity.
sizeOf(size) == IF size <= 0 THEN defaultSize ELSE size

numShardsOf(size, procs) ==
  LET sz == sizeOf(size)
      n == Min2(Min2(Max2(procs * 16, sz \div 256), Max2(1, sz \div 1024)), maxShards)
  IN roundPow2(n)

\* Go's int on a build where it is 32 bits wide (on a 64-bit build the same
\* holds with 2^63 for 2^31): a + b for a, b >= 0 wraps around, and a / n
\* truncates toward zero.
intMax == 2147483647
intMin == -intMax - 1

addInt(a, b) == IF a > intMax - b THEN (a + intMin) + (b + intMin) ELSE a + b

quoInt(a, n) == IF a >= 0 THEN a \div n ELSE -((-a) \div n)

scapOf(size, procs) ==
  LET n == numShardsOf(size, procs) IN quoInt(addInt(sizeOf(size), n - 1), n)

\* No constructor call yet.
noBuild == [pc |-> "none", size |-> 0, procs |-> 0, numShards |-> 0, shardMask |-> 0,
            capacity |-> 0, scap |-> 0]

newShard(scap) ==
  [entries |-> [k \in Keys |-> Nil],
   small |-> entryList,
   main |-> entryList,
   ghostActive |-> newBloomFilter,
   ghostAging |-> newBloomFilter,
   ghostFreqRng |-> ghostFreqRing,
   ghostCap |-> scap,
   deathRow |-> [i \in 0..(deathRowLen - 1) |-> Nil],
   deathRowPos |-> 0,
   capacity |-> scap,
   smallThresh |-> (scap * smallThreshPermille) \div 1000,
   warmupComplete |-> FALSE,
   ent |-> [i \in EntIds |-> entry]]

\* ------------------------------------------------------------------ state
VARIABLES
  capacity,      \* s3fifo.capacity
  shards,        \* s3fifo.shards: index -> shard
  totalEntries,  \* s3fifo.totalEntries
  panicked,      \* an operation has panicked (nil dereference)
  now,           \* the wall clock, time.Now().UnixNano()
  last,          \* the last completed call: what was asked and what it returned
  ops,           \* calls made so far
  thr,           \* per thread: the call it is in the middle of
  lock,          \* shard.mu: the thread holding it, 0 when free
  hist,          \* what the calls so far have set, whether a delete or a flush
                 \* has run, whether sets of one key have overlapped (kept by
                 \* SpecWarm and SpecWriters only)
  dir,           \* localfs: per key the inode at its .gob path and at its .gob.tmp path
  inodes,        \* localfs: inode -> the file's content, a sequence of chunks
  fsthr,         \* localfs: per thread the Store call it is in the middle of
  fsLast,        \* localfs: the last Store call that returned and its results
  fsOps,         \* localfs: Store calls made so far
  fsHist,        \* localfs: per key what the last Set that returned nil wrote, if no
                 \* Delete, Flush, Cleanup or foreign file came after it
  tier,          \* coordinator: "unset" before New, then "memory" or "durable"
  store,         \* coordinator: the durable store, key -> value and expiry
  queue,         \* coordinator: the async writes not yet made
  cothr,         \* coordinator: per thread the call it is in the middle of
  flight,        \* coordinator: per key the GetSet flight in progress
  coLast,        \* coordinator: the last call that returned, and the one before
  coOps,         \* coordinator: calls made so far
  vk,            \* ValidateKey: the textual key of a call and what the call returned
  ev,            \* eviction: the set that is in its eviction loops, its working
                 \* state, and per key the hits since its insertion
  built          \* newS3FIFO: the size and parallelism a constructor call was
                 \* given and the counts it computed

\* The local-file store.
fsVars == <<dir, inodes, fsthr, fsLast, fsOps, fsHist>>

\* The tiered coordinator.
coVars == <<tier, store, queue, cothr, flight, coLast, coOps>>

\* The variables the cache's own actions do not mention.
ext == <<hist, fsVars, coVars, vk, ev, built>>

vars == <<capacity, shards, totalEntries, panicked, now, last, ops, thr, lock, ext>>

\* A thread between calls.  In a call: op, the key, the entry pointer e it
\* loaded from the map, and newFreq, what freq.Add returned to it; in a flush,
\* i, the shard it flushes next, and total, the sizes it has summed; in a set
\* taken step by step, the value and the expiryNano it was called with.
idle == [pc |-> "idle", op |-> "none", key |-> 0, e |-> Nil, newFreq |-> 0,
         i |-> 0, total |-> 0, value |-> zeroV, expiryNano |-> 0]

\* The entry pointers running calls hold.
HeldPtrs == {thr[t].e : t \in Threads}

numShards == Cardinality(DOMAIN shards)

\* s3fifo.shardIdx: h & shardMask with shardMask = numShards - 1, a power of two less one.
shardIdx(h) == h % numShards

shard_byHasher(key) == shardIdx(hashInt64(key))

\* s3fifo.shard for an int key: the key itself is masked.
shard(key) == shardIdx(key)

\* The working state of an operation on shard s.
Enter(s) ==
  LET S == shards[s] IN
  [entries |-> S.entries, small |-> S.small, main |-> S.main,
   ghostActive |-> S.ghostActive, ghostAging |-> S.ghostAging,
   ghostFreqRng |-> S.ghostFreqRng, ghostCap |-> S.ghostCap,
   deathRow |-> S.deathRow, deathRowPos |-> S.deathRowPos,
   capacity |-> S.capacity, smallThresh |-> S.smallThresh,
   warmupComplete |-> S.warmupComplete, ent |-> S.ent,
   total |-> totalEntries, panic |-> FALSE, val |-> zeroV, found |-> FALSE]

\* The shard an operation leaves behind.
Leave(W) ==
  collect([entries |-> W.entries, small |-> W.small, main |-> W.main,
           ghostActive |-> W.ghostActive, ghostAging |-> W.ghostAging,
           ghostFreqRng |-> W.ghostFreqRng, ghostCap |-> W.ghostCap,
           deathRow |-> W.deathRow, deathRowPos |-> W.deathRowPos,
           capacity |-> W.capacity, smallThresh |-> W.smallThresh,
           warmupComplete |-> W.warmupComplete, ent |-> W.ent], HeldPtrs)

\* Where a key's entry is before a call: absent from the map, on death row, or
\* owned by Small or Main.
Where(S, k) ==
  LET e == S.entries[k] IN
  IF e = Nil THEN "absent"
  ELSE IF S.ent[e].onDeathRow THEN "deathRow"
  ELSE IF S.ent[e].inSmall THEN "small" ELSE "main"

Expired(S, k, t) ==
  LET e == S.entries[k] IN
  e # Nil /\ S.ent[e].expiryNano # 0 /\ t > S.ent[e].expiryNano

\* A call's record.  op, key: the call; val, found: what a get returned (for a
\* set the value stored, for a flush the count returned); where, expired: the
\* key's entry before the call; prevOp, prevVal: the call made just before this
\* one when that was a flush or a call on the same key ("none" otherwise);
\* over: for a set or a delete the value the key held before it (0: none), for a
\* get the over of the call on the same key just before it.
noCall == [op |-> "none", key |-> 0, val |-> zeroV, found |-> FALSE,
           where |-> "absent", expired |-> FALSE, prevOp |-> "none", prevVal |-> zeroV,
           over |-> zeroV]

Held(S, k) == IF S.entries[k] = Nil THEN zeroV ELSE S.ent[S.entries[k]].value

\* No set is in its eviction loops; hits: per key the hits since its insertion
\* (ins) and since it last joined Small (small), each counted up to 2, and
\* whether it last joined Small by demotion; sends: the sends to death row.  In a set: W, the working state of the shard; e, the new
\* entry; ret, where evictFromMain returns to; nested, evictFromSmall has
\* called evictFromMain; sent, the entries the call has sent to death row.
noHits == [ins |-> 0, small |-> 0, demoted |-> FALSE]

noSends ==
  [n |-> 0, at |-> [i \in 0..(deathRowLen - 1) |-> 0], peak |-> [k \in Keys |-> 0]]

evIdle(hits, sends) ==
  [pc |-> "idle", W |-> <<>>, e |-> Nil, key |-> 0, value |-> zeroV, ret |-> "end",
   nested |-> FALSE, sent |-> 0, hits |-> hits, sends |-> sends]

\* No key has been handed to ValidateKey.
noText == [text |-> <<>>, err |-> "none"]

\* The tiered coordinator before New: no tier chosen, an empty store, no call.
noRecord == [value |-> zeroV, expiry |-> 0]

\* A thread outside the coordinator.  In a call: its arguments, the expiry
\* computed from ttl, err, what the store or the loader returned to it; in a
\* GetSet also waited (it joined a flight another caller leads) and, once the
\* flight has ended, runs and loaded, the loader calls of the flight and what
\* the last of them returned.
coIdle == [pc |-> "idle", op |-> "none", key |-> 0, value |-> zeroV, expiry |-> 0,
           ttl |-> 0, err |-> "nil", runs |-> 0, loaded |-> zeroV, waited |-> FALSE]

\* No GetSet of the key is in flight.
noFlight == [leader |-> 0, waiters |-> {}, runs |-> 0, loaded |-> zeroV]

\* A coordinator call's results: from, the tier a Get or GetSet got the value
\* from; storeErr, what the store or the loader returned to the call; flown, a
\* GetSet whose flight called the loader; the prev fields, the call that
\* returned before this one.
noCoCall == [op |-> "none", key |-> 0, value |-> zeroV, found |-> FALSE, err |-> "nil",
             ttl |-> 0, from |-> "none", storeErr |-> "nil", flown |-> FALSE,
             waited |-> FALSE, runs |-> 0, loaded |-> zeroV,
             prevOp |-> "none", prevKey |-> 0, prevValue |-> zeroV, prevErr |-> "nil",
             prevTtl |-> 0]

CoInit ==
  /\ tier = "unset"
  /\ store = [k \in Keys |-> noRecord]
  /\ queue = <<>>
  /\ cothr = [t \in Threads |-> coIdle]
  /\ flight = [k \in Keys |-> noFlight]
  /\ coLast = noCoCall
  /\ coOps = 0

\* The local-file store before any call: an empty directory.
noFile == 0

\* No Set of the key stands.  After one: what it wrote, and over, whether it
\* replaced what another Set had written.
noWrite == [value |-> zeroV, expiry |-> 0, over |-> FALSE]

\* A Store call's results.  decoded: a Get decoded a record, of expiry recExpiry.
\* opened: a Get opened the key's file; bad: what it
\* read did not decode; touched: the call created, overwrote or removed a record.
noFsCall == [op |-> "none", key |-> 0, value |-> zeroV, expiry |-> 0, found |-> FALSE,
             err |-> "nil", done |-> FALSE, opened |-> FALSE, bad |-> FALSE,
             touched |-> FALSE, n |-> 0, decoded |-> FALSE, recExpiry |-> 0]

\* A thread outside the store.  In a call: key, value, expiry, chunks (the
\* writes the record takes) and done (the context is cancelled), the arguments;
\* fd, the inode of the file it has open; off, the chunks it has written.
fsIdle == [pc |-> "idle", op |-> "none", key |-> 0, value |-> zeroV, expiry |-> 0,
           chunks |-> 0, done |-> FALSE, fd |-> noFile, off |-> 0,
           opened |-> FALSE, bad |-> FALSE, touched |-> FALSE,
           decoded |-> FALSE, recExpiry |-> 0]

FsInit ==
  /\ dir = [k \in StoreKeys |-> [gob |-> noFile, tmp |-> noFile]]
  /\ inodes = [i \in Inodes |-> <<>>]
  /\ fsthr = [t \in Threads |-> fsIdle]
  /\ fsLast = noFsCall
  /\ fsOps = 0
  /\ fsHist = [k \in StoreKeys |-> noWrite]


Call(op, k, v, f) ==
  LET s == shard(k)
      same == last.op = "flush" \/ last.key = k
  IN [op |-> op, key |-> k, val |-> v, found |-> f,
      where |-> Where(shards[s], k), expired |-> Expired(shards[s], k, now),
      prevOp |-> IF same THEN last.op ELSE "none",
      prevVal |-> IF same THEN last.val ELSE zeroV,
      over |-> IF op = "get" THEN (IF last.key = k THEN last.over ELSE zeroV)
               ELSE Held(shards[s], k)]

Init ==
  /\ capacity \in 1..MaxCapacity
  /\ \E procs \in 1..MaxProcs :
       shards = [i \in 0..(numShardsOf(capacity, procs) - 1) |->
                   newShard(scapOf(capacity, procs))]
  /\ totalEntries = 0
  /\ panicked = FALSE
  /\ now = 0
  /\ last = noCall
  /\ ops = 0
  /\ thr = [t \in Threads |-> idle]
  /\ lock = 0
  /\ hist = [written |-> [k \in Keys |-> zeroV], calm |-> TRUE, overlap |-> FALSE]
  /\ FsInit
  /\ CoInit
  /\ vk = noText
  /\ ev = evIdle([k \in Keys |-> noHits], noSends)
  /\ built = noBuild

\* A call that takes the shard lock can start: nothing has panicked, fewer than
\* n calls were made, the lock is free and a thread is free to make the call.
Running(n) ==
  /\ ~panicked
  /\ ops < n
  /\ lock = 0
  /\ \E t \in Threads : thr[t].pc = "idle"

Commit(s, W, call) ==
  /\ shards' = [shards EXCEPT ![s] = Leave(W)]
  /\ totalEntries' = W.total
  /\ panicked' = W.panic
  /\ last' = call
  /\ ops' = ops + 1
  /\ UNCHANGED <<capacity, now, thr, lock>>

\* s3fifo.set
Set(k, v, x, n) ==
  LET s == shard(k) IN
  /\ Running(n)
  /\ shards[s].entries[k] # Nil \/ FreeIds(shards[s]) # {}
  /\ Commit(s, setWithHash(Enter(s), k, v, x, 0, capacity), Call("set", k, v, FALSE))

\* s3fifo.get
Get(k, n) ==
  LET s == shard(k) IN
  /\ Running(n)
  /\ LET W == get(Enter(s), k, now) IN Commit(s, W, Call("get", k, W.val, W.found))

\* s3fifo.del
Delete(k, n) ==
  LET s == shard(k) IN
  /\ Running(n)
  /\ Commit(s, delete(Enter(s), k), Call("delete", k, zeroV, FALSE))

\* s3fifo.flush: every shard in turn, then the counter is stored as 0.
Flush(n) ==
  /\ Running(n)
  /\ shards' = [s \in DOMAIN shards |-> Leave(flush(Enter(s)))]
  /\ totalEntries' = 0
  /\ last' = [noCall EXCEPT !.op = "flush",
                            !.val = Cardinality({k \in Keys : shards[shard(k)].entries[k] # Nil})]
  /\ ops' = ops + 1
  /\ UNCHANGED <<capacity, panicked, now, thr, lock>>

\* Time passes.
Tick ==
  /\ ~panicked
  /\ now < MaxTime
  /\ now' = now + 1
  /\ UNCHANGED <<capacity, shards, totalEntries, panicked, last, ops, thr, lock>>

\* Sequential calls with values and no expiry.
Next ==
  \/ \E k \in CoreKeys, v \in Values : Set(k, v, 0, MaxOps) /\ UNCHANGED ext
  \/ \E k \in CoreKeys : Get(k, MaxOps) /\ UNCHANGED ext
  \/ \E k \in CoreKeys : Delete(k, MaxOps) /\ UNCHANGED ext
  \/ Flush(MaxOps) /\ UNCHANGED ext

Spec == Init /\ [][Next]_vars

\* Sequential calls over all keys, one value, no expiry.
NextWide ==
  \/ \E k \in Keys : Set(k, 1, 0, MaxWideOps) /\ UNCHANGED ext
  \/ \E k \in Keys : Get(k, MaxWideOps) /\ UNCHANGED ext
  \/ \E k \in Keys : Delete(k, MaxWideOps) /\ UNCHANGED ext
  \/ Flush(MaxWideOps) /\ UNCHANGED ext

SpecWide == Init /\ [][NextWide]_vars

\* Sequential calls with expiry instants, and the clock.
NextTTL ==
  \/ \E k \in TTLKeys, x \in Times : Set(k, 1, x, MaxTTLOps) /\ UNCHANGED ext
  \/ \E k \in TTLKeys : Get(k, MaxTTLOps) /\ UNCHANGED ext
  \/ \E k \in TTLKeys : Delete(k, MaxTTLOps) /\ UNCHANGED ext
  \/ Flush(MaxTTLOps) /\ UNCHANGED ext
  \/ Tick /\ UNCHANGED ext

SpecTTL == Init /\ [][NextTTL]_vars

\* Sequential calls, with a record of the value each key was last set to and of
\* whether a delete or a flush has run.
NextWarm ==
  \/ \E k \in CoreKeys, v \in Values :
       Set(k, v, 0, MaxWarmOps) /\ hist' = [hist EXCEPT !.written[k] = v]
       /\ UNCHANGED <<fsVars, coVars, vk, ev, built>>
  \/ \E k \in CoreKeys : Get(k, MaxWarmOps) /\ UNCHANGED ext
  \/ \E k \in CoreKeys : Delete(k, MaxWarmOps) /\ hist' = [hist EXCEPT !.calm = FALSE]
       /\ UNCHANGED <<fsVars, coVars, vk, ev, built>>
  \/ Flush(MaxWarmOps) /\ hist' = [hist EXCEPT !.calm = FALSE]
       /\ UNCHANGED <<fsVars, coVars, vk, ev, built>>

SpecWarm == Init /\ [][NextWarm]_vars

\* A cache large enough to be split into several shards.
InitSharded ==
  /\ capacity = ShardedSize
  /\ \E procs \in 1..MaxProcs :
       shards = [i \in 0..(numShardsOf(capacity, procs) - 1) |->
                   newShard(scapOf(capacity, procs))]
  /\ totalEntries = 0
  /\ panicked = FALSE
  /\ now = 0
  /\ last = noCall
  /\ ops = 0
  /\ thr = [t \in Threads |-> idle]
  /\ lock = 0
  /\ hist = [written |-> [k \in Keys |-> zeroV], calm |-> TRUE, overlap |-> FALSE]
  /\ FsInit
  /\ CoInit
  /\ vk = noText
  /\ ev = evIdle([k \in Keys |-> noHits], noSends)
  /\ built = noBuild

\* Sequential calls on a cache of several shards.
NextSharded ==
  \/ \E k \in Keys : Set(k, 1, 0, MaxShardedOps) /\ UNCHANGED ext
  \/ \E k \in Keys : Get(k, MaxShardedOps) /\ UNCHANGED ext
  \/ \E k \in Keys : Delete(k, MaxShardedOps) /\ UNCHANGED ext
  \/ Flush(MaxShardedOps) /\ UNCHANGED ext

SpecSharded == InitSharded /\ [][NextSharded]_vars

\* ------------------------------------------------------- overlapping calls
\* A get reads the map and the entry without the lock, one memory access per
\* step; the update path of set makes the same freq and peakFreq accesses while
\* it holds the lock.  pc names the access a thread makes next.

Result(t, v, f) == [noCall EXCEPT !.op = thr[t].op, !.key = thr[t].key, !.val = v, !.found = f]

\* The call of thread t returns.
Return(t, v, f) ==
  /\ thr' = [thr EXCEPT ![t] = idle]
  /\ last' = Result(t, v, f)

\* get: ent, ok := s.entries.Load(key)
GetLoad(t, k, n) ==
  LET s == shard(k)
      e == shards[s].entries[k]
  IN /\ ~panicked /\ ops < n
     /\ thr[t].pc = "idle"
     /\ ops' = ops + 1
     /\ IF e = Nil
        THEN /\ last' = [noCall EXCEPT !.op = "get", !.key = k]
             /\ UNCHANGED thr
        ELSE /\ thr' = [thr EXCEPT ![t] = [idle EXCEPT !.pc = "row", !.op = "get",
                                                      !.key = k, !.e = e]]
             /\ UNCHANGED last
     /\ UNCHANGED <<capacity, shards, totalEntries, panicked, now, lock>>

\* get: if ent.onDeathRow { return s.resurrectFromDeathRow(key) }, the flag read
\* without the lock.
GetRow(t) ==
  LET k == thr[t].key
      s == shard(k)
  IN /\ thr[t].pc = "row"
     /\ thr' = [thr EXCEPT ![t].pc = IF shards[s].ent[thr[t].e].onDeathRow
                                     THEN "resurrect" ELSE "expiry"]
     /\ UNCHANGED <<capacity, shards, totalEntries, panicked, now, last, ops, lock>>

\* get: resurrectFromDeathRow(key), from s.mu.Lock() to s.mu.Unlock().
GetResurrect(t) ==
  LET k == thr[t].key
      s == shard(k)
      W == resurrectFromDeathRow(Enter(s), k)
      thr2 == [thr EXCEPT ![t] = idle]
  IN /\ thr[t].pc = "resurrect"
     /\ lock = 0
     /\ thr' = thr2
     /\ shards' = [shards EXCEPT ![s] = collect(Leave(W), {thr2[u].e : u \in Threads})]
     /\ totalEntries' = W.total
     /\ last' = [Result(t, W.val, W.found) EXCEPT !.where = "deathRow"]
     /\ UNCHANGED <<capacity, panicked, now, ops, lock>>

\* The shard of key k once thread t has dropped its pointer.
Dropped(t, k) ==
  [shards EXCEPT ![shard(k)] =
     collect(shards[shard(k)], {thr[u].e : u \in Threads \ {t}})]

\* get: if ent.expiryNano != 0 && time.Now().UnixNano() > ent.expiryNano { miss }
GetExpiry(t) ==
  LET k == thr[t].key
      x == shards[shard(k)].ent[thr[t].e].expiryNano
  IN /\ thr[t].pc = "expiry"
     /\ IF x # 0 /\ now > x
        THEN /\ Return(t, zeroV, FALSE)
             /\ shards' = Dropped(t, k)
        ELSE /\ thr' = [thr EXCEPT ![t].pc = "freq"]
             /\ UNCHANGED <<shards, last>>
     /\ UNCHANGED <<capacity, totalEntries, panicked, now, ops, lock>>

\* set, the key being in the map: take the lock, store value and expiryNano.
SetUpdate(t, k, v, x, n) ==
  LET s == shard(k)
      e == shards[s].entries[k]
  IN /\ Running(n)
     /\ thr[t].pc = "idle"
     /\ e # Nil
     /\ lock' = t
     /\ ops' = ops + 1
     /\ thr' = [thr EXCEPT ![t] = [idle EXCEPT !.pc = "freq", !.op = "set",
                                                   !.key = k, !.e = e]]
     /\ shards' = [shards EXCEPT ![s].ent[e].value = v, ![s].ent[e].expiryNano = x]
     /\ UNCHANGED <<capacity, totalEntries, panicked, now, last>>

\* set, the key not being in the map: the whole insertion runs under the lock.
SetInsert(k, v, x, n) ==
  /\ shards[shard(k)].entries[k] = Nil
  /\ Set(k, v, x, n)

\* The end of the hit path: get goes on to read the value, set unlocks and returns.
Finish(t) ==
  IF thr[t].op = "get"
  THEN /\ thr' = [thr EXCEPT ![t].pc = "ret"]
       /\ UNCHANGED <<shards, last, lock>>
  ELSE /\ Return(t, zeroV, FALSE)
       /\ lock' = 0
       /\ shards' = Dropped(t, thr[t].key)

\* if ent.freq.Load() < maxFreq
HitLoadFreq(t) ==
  /\ thr[t].pc = "freq"
  /\ IF shards[shard(thr[t].key)].ent[thr[t].e].freq < maxFreq
     THEN /\ thr' = [thr EXCEPT ![t].pc = "add"]
          /\ UNCHANGED <<shards, last, lock>>
     ELSE Finish(t)
  /\ UNCHANGED <<capacity, totalEntries, panicked, now, ops>>

\* newFreq := ent.freq.Add(1)
HitAdd(t) ==
  LET s == shard(thr[t].key)
      e == thr[t].e
      newFreq == shards[s].ent[e].freq + 1
  IN /\ thr[t].pc = "add"
     /\ shards' = [shards EXCEPT ![s].ent[e].freq = newFreq]
     /\ thr' = [thr EXCEPT ![t].pc = "peak", ![t].newFreq = newFreq]
     /\ UNCHANGED <<capacity, totalEntries, panicked, now, last, ops, lock>>

\* if newFreq > ent.peakFreq.Load()
HitLoadPeak(t) ==
  /\ thr[t].pc = "peak"
  /\ IF thr[t].newFreq > shards[shard(thr[t].key)].ent[thr[t].e].peakFreq
     THEN /\ thr' = [thr EXCEPT ![t].pc = "store"]
          /\ UNCHANGED <<shards, last, lock>>
     ELSE Finish(t)
  /\ UNCHANGED <<capacity, totalEntries, panicked, now, ops>>

\* ent.peakFreq.Store(newFreq)
HitStorePeak(t) ==
  LET s == shard(thr[t].key)
      e == thr[t].e
      stored == [shards EXCEPT ![s].ent[e].peakFreq = thr[t].newFreq]
  IN /\ thr[t].pc = "store" /\ thr[t].op # "flush"
     /\ IF thr[t].op = "get"
        THEN /\ thr' = [thr EXCEPT ![t].pc = "ret"]
             /\ shards' = stored
             /\ UNCHANGED <<last, lock>>
        ELSE /\ Return(t, zeroV, FALSE)
             /\ lock' = 0
             /\ shards' = [stored EXCEPT ![s] =
                             collect(stored[s], {thr[u].e : u \in Threads \ {t}})]
     /\ UNCHANGED <<capacity, totalEntries, panicked, now, ops>>

\* get: return ent.value, true
GetReturn(t) ==
  LET k == thr[t].key IN
  /\ thr[t].pc = "ret"
  /\ Return(t, shards[shard(k)].ent[thr[t].e].value, TRUE)
  /\ shards' = Dropped(t, k)
  /\ UNCHANGED <<capacity, totalEntries, panicked, now, ops, lock>>

\* flush: the call starts; the shards are flushed in turn, each under its lock.
FlushBegin(t, n) ==
  /\ ~panicked /\ ops < n
  /\ thr[t].pc = "idle"
  /\ thr' = [thr EXCEPT ![t] = [idle EXCEPT !.pc = "flush", !.op = "flush"]]
  /\ ops' = ops + 1
  /\ UNCHANGED <<capacity, shards, totalEntries, panicked, now, last, lock>>

\* flush: total += s.flush() for the next shard
FlushShard(t) ==
  LET i == thr[t].i
      n == Cardinality({k \in Keys : shards[i].entries[k] # Nil})
  IN /\ thr[t].pc = "flush"
     /\ lock = 0
     /\ shards' = [shards EXCEPT ![i] = Leave(flush(Enter(i)))]
     /\ thr' = [thr EXCEPT ![t].i = i + 1, ![t].total = @ + n,
                           ![t].pc = IF i + 1 = numShards THEN "store" ELSE "flush"]
     /\ UNCHANGED <<capacity, totalEntries, panicked, now, last, ops, lock>>

\* flush: c.totalEntries.Store(0); return total
FlushStore(t) ==
  /\ thr[t].pc = "store" /\ thr[t].op = "flush"
  /\ totalEntries' = 0
  /\ Return(t, thr[t].total, FALSE)
  /\ UNCHANGED <<capacity, shards, panicked, now, ops, lock>>

\* Threads calling get, set, delete and flush on the same keys, their steps
\* interleaved.
NextHits ==
  \/ \E t \in Threads, k \in HitKeys : GetLoad(t, k, MaxHitOps) /\ UNCHANGED ext
  \/ \E t \in Threads, k \in HitKeys : SetUpdate(t, k, 1, 0, MaxHitOps) /\ UNCHANGED ext
  \/ \E k \in HitKeys : SetInsert(k, 1, 0, MaxHitOps) /\ UNCHANGED ext
  \/ \E k \in HitKeys : Delete(k, MaxHitOps) /\ UNCHANGED ext
  \/ \E t \in Threads : FlushBegin(t, MaxHitOps) /\ UNCHANGED ext
  \/ \E t \in Threads : FlushShard(t) /\ UNCHANGED ext
  \/ \E t \in Threads : FlushStore(t) /\ UNCHANGED ext
  \/ \E t \in Threads : GetRow(t) /\ UNCHANGED ext
  \/ \E t \in Threads : GetExpiry(t) /\ UNCHANGED ext
  \/ \E t \in Threads : HitLoadFreq(t) /\ UNCHANGED ext
  \/ \E t \in Threads : HitAdd(t) /\ UNCHANGED ext
  \/ \E t \in Threads : HitLoadPeak(t) /\ UNCHANGED ext
  \/ \E t \in Threads : HitStorePeak(t) /\ UNCHANGED ext
  \/ \E t \in Threads : GetReturn(t) /\ UNCHANGED ext

SpecHits == Init /\ [][NextHits]_vars

AllIdle == \A t \in Threads : thr[t].pc = "idle"

\* Sets that fill the cache and send keys to death row, and gets of those keys
\* by several threads, the lock-free reads and the locked resurrection interleaved.
NextRow ==
  \/ \E k \in RowKeys, v \in Values : SetInsert(k, v, 0, MaxRowOps) /\ UNCHANGED ext
  \/ \E t \in Threads, k \in RowKeys : GetLoad(t, k, MaxRowOps) /\ UNCHANGED ext
  \/ \E t \in Threads : GetRow(t) /\ UNCHANGED ext
  \/ \E t \in Threads : GetResurrect(t) /\ UNCHANGED ext
  \/ \E t \in Threads : GetExpiry(t) /\ UNCHANGED ext
  \/ \E t \in Threads : HitLoadFreq(t) /\ UNCHANGED ext
  \/ \E t \in Threads : HitAdd(t) /\ UNCHANGED ext
  \/ \E t \in Threads : HitLoadPeak(t) /\ UNCHANGED ext
  \/ \E t \in Threads : HitStorePeak(t) /\ UNCHANGED ext
  \/ \E t \in Threads : GetReturn(t) /\ UNCHANGED ext

SpecRow == Init /\ [][NextRow]_vars

\* -------------------------------------------------------- overlapping sets
\* setWithHash one step at a time: the lock, the probe of the map, and on the
\* update path the two stores, followed by the freq and peakFreq accesses above.

\* set is called: the thread is about to ask for the shard lock.
SetCall(t, k, v, x, n) ==
  /\ ~panicked /\ ops < n
  /\ thr[t].pc = "idle"
  /\ ops' = ops + 1
  /\ thr' = [thr EXCEPT ![t] = [idle EXCEPT !.pc = "lock", !.op = "set", !.key = k,
                                                !.value = v, !.expiryNano = x]]
  /\ UNCHANGED <<capacity, shards, totalEntries, panicked, now, last, lock>>

SetLock_noLock(t) ==
  /\ thr[t].pc = "lock"
  /\ thr' = [thr EXCEPT ![t].pc = "probe"]
  /\ UNCHANGED <<capacity, shards, totalEntries, panicked, now, last, ops, lock>>

\* s.mu.Lock(): the thread waits until the lock is free.
SetLock(t) ==
  /\ thr[t].pc = "lock"
  /\ lock = 0
  /\ lock' = t
  /\ thr' = [thr EXCEPT ![t].pc = "probe"]
  /\ UNCHANGED <<capacity, shards, totalEntries, panicked, now, last, ops>>

\* if ent, exists := s.entries.Load(key); exists { ... }; otherwise the entry is
\* created, admitted and stored in the map, and the lock is released.
SetProbe(t) ==
  LET k == thr[t].key
      s == shard(k)
      e == shards[s].entries[k]
  IN /\ thr[t].pc = "probe"
     /\ IF e # Nil
        THEN /\ thr' = [thr EXCEPT ![t].pc = "value", ![t].e = e]
             /\ UNCHANGED <<shards, totalEntries, panicked, last, lock>>
        ELSE /\ FreeIds(shards[s]) # {}
             /\ LET W == setWithHash(Enter(s), k, thr[t].value, thr[t].expiryNano,
                                     0, capacity)
                IN /\ shards' = [shards EXCEPT ![s] = Leave(W)]
                   /\ totalEntries' = W.total
                   /\ panicked' = W.panic
             /\ lock' = 0
             /\ Return(t, thr[t].value, FALSE)
     /\ UNCHANGED <<capacity, now, ops>>

\* ent.value = value
SetValue(t) ==
  /\ thr[t].pc = "value"
  /\ shards' = [shards EXCEPT ![shard(thr[t].key)].ent[thr[t].e].value = thr[t].value]
  /\ thr' = [thr EXCEPT ![t].pc = "expiry"]
  /\ UNCHANGED <<capacity, totalEntries, panicked, now, last, ops, lock>>

\* ent.expiryNano = expiryNano
SetExpiry(t) ==
  /\ thr[t].pc = "expiry"
  /\ shards' = [shards EXCEPT ![shard(thr[t].key)].ent[thr[t].e].expiryNano =
                                thr[t].expiryNano]
  /\ thr' = [thr EXCEPT ![t].pc = "freq"]
  /\ UNCHANGED <<capacity, totalEntries, panicked, now, last, ops, lock>>

\* The record of what was set, kept as each set returns.
Noted(t) ==
  IF thr'[t].pc = "idle"
  THEN [hist EXCEPT !.written[thr[t].key] = thr[t].value]
  ELSE hist

\* Threads calling set with a value and the expiry that goes with it, their
\* steps interleaved, and a get whenever no set is running.
NextWriters ==
  \/ \E t \in Threads, k \in WriterKeys, v \in Values :
       /\ SetCall(t, k, v, v, MaxWriterOps)
       /\ hist' = [hist EXCEPT !.overlap = @ \/ \E u \in Threads \ {t} :
                                                  thr[u].op = "set" /\ thr[u].key = k]
       /\ UNCHANGED <<fsVars, coVars, vk, ev, built>>
  \/ \E t \in Threads : SetLock(t) /\ hist' = Noted(t) /\ UNCHANGED <<fsVars, coVars, vk, ev, built>>
  \/ \E t \in Threads : SetProbe(t) /\ hist' = Noted(t) /\ UNCHANGED <<fsVars, coVars, vk, ev, built>>
  \/ \E t \in Threads : SetValue(t) /\ hist' = Noted(t) /\ UNCHANGED <<fsVars, coVars, vk, ev, built>>
  \/ \E t \in Threads : SetExpiry(t) /\ hist' = Noted(t) /\ UNCHANGED <<fsVars, coVars, vk, ev, built>>
  \/ \E t \in Threads : HitLoadFreq(t) /\ hist' = Noted(t) /\ UNCHANGED <<fsVars, coVars, vk, ev, built>>
  \/ \E t \in Threads : HitAdd(t) /\ hist' = Noted(t) /\ UNCHANGED <<fsVars, coVars, vk, ev, built>>
  \/ \E t \in Threads : HitLoadPeak(t) /\ hist' = Noted(t) /\ UNCHANGED <<fsVars, coVars, vk, ev, built>>
  \/ \E t \in Threads : HitStorePeak(t) /\ hist' = Noted(t) /\ UNCHANGED <<fsVars, coVars, vk, ev, built>>
  \/ \E k \in WriterKeys : AllIdle /\ Get(k, MaxWriterOps) /\ UNCHANGED ext

SpecWriters == Init /\ [][NextWriters]_vars

\* -------------------------------------------------------- local-file store
\* localfs.Store: one file per key at <Dir>/<h[0:2]>/<h>.gob, written through
\* <that path>.tmp.  A directory entry names an inode (0: no such file); an open
\* file is the inode it was opened on, so a rename or a remove of the path does
\* not reach it.  A record reaches the file in the writes the buffered writer
\* makes, its chunks; a chunk carries the value and the expiry of the call that
\* wrote it, its place in the record and the record's length in chunks.

\* The inodes a directory entry or an open file refers to.
InUse(d, th) ==
  {d[k].gob : k \in StoreKeys} \cup {d[k].tmp : k \in StoreKeys}
    \cup {th[t].fd : t \in Threads}

\* The file system frees an inode that no path and no open file refers to.
Reclaim(ino, d, th) == [i \in Inodes |-> IF i \in InUse(d, th) THEN ino[i] ELSE <<>>]

\* gob.NewEncoder(w).Encode(e): chunk i of the record of (value, expiry).
Chunk(v, x, i, n) == [value |-> v, expiry |-> x, part |-> i, of |-> n]

\* The zero bytes a file reads as where nothing was written.
hole == [value |-> zeroV, expiry |-> 0, part |-> 0, of |-> 0]

\* A write of chunk c at offset off (in chunks) into content f; a write past the
\* end of the file leaves a hole before it.
WriteAt(f, off, c) ==
  [i \in 1..Max2(Len(f), off + 1) |->
     IF i = off + 1 THEN c ELSE IF i <= Len(f) THEN f[i] ELSE hole]

\* gob.NewDecoder(r).Decode(&e) succeeds on a content that starts with all the
\* chunks of one record in order; what follows them is not read.
Decodes(f) ==
  /\ Len(f) >= 1
  /\ f[1].part = 1
  /\ Len(f) >= f[1].of
  /\ \A i \in 1..f[1].of : f[i] = Chunk(f[1].value, f[1].expiry, i, f[1].of)

\* A content the decoder rejects that no Set of this store wrote.
foreign == <<hole>>

\* The store call of thread t returns.
FsReturn(t, th, v, x, f, err) ==
  /\ fsthr' = [th EXCEPT ![t] = fsIdle]
  /\ fsLast' = [op |-> th[t].op, key |-> th[t].key, value |-> v, expiry |-> x,
                found |-> f, err |-> err, done |-> th[t].done, opened |-> th[t].opened,
                bad |-> th[t].bad, touched |-> th[t].touched, n |-> 0,
                decoded |-> th[t].decoded, recExpiry |-> th[t].recExpiry]
  /\ fsHist' = IF th[t].op = "set" /\ err = "nil"
               THEN [fsHist EXCEPT ![th[t].key] =
                       [value |-> v, expiry |-> x,
                        over |-> @.value # zeroV /\ (@.value # v \/ @.expiry # x)]]
               ELSE IF th[t].op = "delete"
               THEN [fsHist EXCEPT ![th[t].key] = noWrite]
               ELSE fsHist

\* Store.Set is called.  The subdirectory is made when it is not yet known to exist.
FsSetCall(t, k, v, x, n, done, max) ==
  /\ fsOps < max
  /\ fsthr[t].pc = "idle"
  /\ fsOps' = fsOps + 1
  /\ fsthr' = [fsthr EXCEPT ![t] = [fsIdle EXCEPT !.pc = "create", !.op = "set", !.key = k,
                                                     !.value = v, !.expiry = x,
                                                     !.chunks = n, !.done = done]]
  /\ UNCHANGED <<dir, inodes, fsLast, fsHist>>

\* Set: f, err := os.Create(tmp) opens the temp file, truncating the one there.
FsCreate(t) ==
  LET k == fsthr[t].key
      old == dir[k].tmp
      free == Inodes \ InUse(dir, fsthr)
      new == CHOOSE i \in free : \A j \in free : i <= j
  IN /\ fsthr[t].pc = "create"
     /\ IF old # noFile
        THEN /\ inodes' = [inodes EXCEPT ![old] = <<>>]
             /\ fsthr' = [fsthr EXCEPT ![t].pc = "write", ![t].fd = old]
             /\ UNCHANGED dir
        ELSE /\ free # {}
             /\ dir' = [dir EXCEPT ![k].tmp = new]
             /\ fsthr' = [fsthr EXCEPT ![t].pc = "write", ![t].fd = new]
             /\ UNCHANGED inodes
     /\ UNCHANGED <<fsLast, fsHist, fsOps>>

\* Set: the encoder and w.Flush() write the record, a chunk per write.
FsWrite(t) ==
  LET me == fsthr[t]
      c == Chunk(me.value, me.expiry, me.off + 1, me.chunks)
  IN /\ me.pc = "write"
     /\ inodes' = [inodes EXCEPT ![me.fd] = WriteAt(@, me.off, c)]
     /\ fsthr' = [fsthr EXCEPT ![t].off = me.off + 1,
                               ![t].pc = IF me.off + 1 = me.chunks THEN "rename" ELSE "write"]
     /\ UNCHANGED <<dir, fsLast, fsHist, fsOps>>

\* Set whose rename leaves a record that is already at the path.
FsRename_keepsOld(t) ==
  LET k == fsthr[t].key
      closed == [fsthr EXCEPT ![t].fd = noFile]
      d == IF dir[k].gob = noFile
           THEN [dir EXCEPT ![k].gob = dir[k].tmp, ![k].tmp = noFile]
           ELSE [dir EXCEPT ![k].tmp = noFile]
  IN /\ fsthr[t].pc = "rename"
     /\ dir' = d
     /\ inodes' = Reclaim(inodes, d, closed)
     /\ FsReturn(t, closed, fsthr[t].value, fsthr[t].expiry, FALSE, "nil")
     /\ UNCHANGED fsOps

\* Set: f.Close(); os.Rename(tmp, fn), and on its failure os.Remove(tmp).
FsRename(t) ==
  LET k == fsthr[t].key
      closed == [fsthr EXCEPT ![t].fd = noFile]
  IN /\ fsthr[t].pc = "rename"
     /\ IF dir[k].tmp = noFile
        THEN /\ FsReturn(t, closed, fsthr[t].value, fsthr[t].expiry, FALSE, "rename")
             /\ inodes' = Reclaim(inodes, dir, closed)
             /\ UNCHANGED dir
        ELSE LET d == [dir EXCEPT ![k].gob = dir[k].tmp, ![k].tmp = noFile] IN
             /\ dir' = d
             /\ inodes' = Reclaim(inodes, d, closed)
             /\ FsReturn(t, [closed EXCEPT ![t].touched = TRUE],
                         fsthr[t].value, fsthr[t].expiry, FALSE, "nil")
     /\ UNCHANGED fsOps

\* Store.Get is called.
FsGetCall(t, k, done, max) ==
  /\ fsOps < max
  /\ fsthr[t].pc = "idle"
  /\ fsOps' = fsOps + 1
  /\ fsthr' = [fsthr EXCEPT ![t] = [fsIdle EXCEPT !.pc = "open", !.op = "get", !.key = k,
                                                     !.done = done]]
  /\ UNCHANGED <<dir, inodes, fsLast, fsHist>>

\* Get: f, err := os.Open(fn); a missing file is a miss.
FsOpen(t) ==
  LET k == fsthr[t].key IN
  /\ fsthr[t].pc = "open"
  /\ IF dir[k].gob = noFile
     THEN FsReturn(t, fsthr, zeroV, 0, FALSE, "nil")
     ELSE /\ fsthr' = [fsthr EXCEPT ![t].pc = "decode", ![t].fd = dir[k].gob,
                                    ![t].opened = TRUE]
          /\ UNCHANGED <<fsLast, fsHist>>
  /\ UNCHANGED <<dir, inodes, fsOps>>

\* Get: Decode(&e), f.Close(), and the test of the expiry.
FsDecode(t) ==
  LET f == inodes[fsthr[t].fd]
      closed == [fsthr EXCEPT ![t].fd = noFile]
  IN /\ fsthr[t].pc = "decode"
     /\ inodes' = Reclaim(inodes, dir, closed)
     /\ IF ~Decodes(f)
        THEN /\ fsthr' = [closed EXCEPT ![t].pc = "rmbad", ![t].bad = TRUE]
             /\ UNCHANGED <<fsLast, fsHist>>
        ELSE IF f[1].expiry # 0 /\ now > f[1].expiry
        THEN /\ fsthr' = [closed EXCEPT ![t].pc = "rmexpired", ![t].decoded = TRUE,
                                        ![t].recExpiry = f[1].expiry]
             /\ UNCHANGED <<fsLast, fsHist>>
        ELSE FsReturn(t, [closed EXCEPT ![t].decoded = TRUE, ![t].recExpiry = f[1].expiry],
                      f[1].value, f[1].expiry, TRUE, "nil")
     /\ UNCHANGED <<dir, fsOps>>

\* os.Remove(fn) by thread t.
Removed(t) ==
  LET k == fsthr[t].key
      d == [dir EXCEPT ![k].gob = noFile]
  IN [d |-> d, ino |-> Reclaim(inodes, d, fsthr), was |-> dir[k].gob # noFile]

\* Get, the record did not decode: rmErr := os.Remove(fn); the joined error is returned.
FsRemoveBad(t) ==
  /\ fsthr[t].pc = "rmbad"
  /\ dir' = Removed(t).d
  /\ inodes' = Removed(t).ino
  /\ FsReturn(t, [fsthr EXCEPT ![t].touched = Removed(t).was], zeroV, 0, FALSE, "decode")
  /\ UNCHANGED fsOps

\* Get reporting an expired record as a miss and leaving its file.
FsRemoveExpired_keepsFile(t) ==
  /\ fsthr[t].pc = "rmexpired"
  /\ FsReturn(t, fsthr, zeroV, 0, FALSE, "nil")
  /\ UNCHANGED <<dir, inodes, fsOps>>

\* Get, the record has expired: os.Remove(fn), a miss.
FsRemoveExpired(t) ==
  /\ fsthr[t].pc = "rmexpired"
  /\ dir' = Removed(t).d
  /\ inodes' = Removed(t).ino
  /\ FsReturn(t, [fsthr EXCEPT ![t].touched = Removed(t).was], zeroV, 0, FALSE, "nil")
  /\ UNCHANGED fsOps

\* Store.Delete: os.Remove(fn); a missing file is not an error.
FsDelete(t, k, done, max) ==
  LET me == [fsthr EXCEPT ![t] = [fsIdle EXCEPT !.op = "delete", !.key = k, !.done = done]]
      d == [dir EXCEPT ![k].gob = noFile]
  IN /\ fsOps < max
     /\ fsthr[t].pc = "idle"
     /\ fsOps' = fsOps + 1
     /\ dir' = d
     /\ inodes' = Reclaim(inodes, d, fsthr)
     /\ FsReturn(t, [me EXCEPT ![t].touched = dir[k].gob # noFile], zeroV, 0, FALSE, "nil")

\* The .gob files filepath.Walk visits.
GobKeys == {k \in StoreKeys : dir[k].gob # noFile}

\* A walk under a cancelled context: the callback returns ctx.Err() at the root
\* of the walk, before any file.
FsWalkCancelled(t, op) ==
  /\ FsReturn(t, [fsthr EXCEPT ![t] = [fsIdle EXCEPT !.op = op, !.done = TRUE]],
              zeroV, 0, FALSE, "canceled")
  /\ UNCHANGED <<dir, inodes>>

\* Store.Flush: every .gob file is removed; n counts them.
FsFlush(t, done, max) ==
  LET d == [k \in StoreKeys |-> [dir[k] EXCEPT !.gob = noFile]]
      me == [fsthr EXCEPT ![t] = [fsIdle EXCEPT !.op = "flush", !.touched = GobKeys # {}]]
  IN /\ fsOps < max
     /\ fsthr[t].pc = "idle"
     /\ fsOps' = fsOps + 1
     /\ IF done THEN FsWalkCancelled(t, "flush")
        ELSE /\ dir' = d
             /\ inodes' = Reclaim(inodes, d, fsthr)
             /\ fsthr' = [fsthr EXCEPT ![t] = fsIdle]
             /\ fsLast' = [noFsCall EXCEPT !.op = "flush", !.touched = GobKeys # {},
                                           !.n = Cardinality(GobKeys)]
             /\ fsHist' = [k \in StoreKeys |-> noWrite]

\* Store.Len: the .gob files are counted.
FsLen(t, done, max) ==
  /\ fsOps < max
  /\ fsthr[t].pc = "idle"
  /\ fsOps' = fsOps + 1
  /\ IF done THEN FsWalkCancelled(t, "len")
     ELSE /\ fsthr' = [fsthr EXCEPT ![t] = fsIdle]
          /\ fsLast' = [noFsCall EXCEPT !.op = "len", !.n = Cardinality(GobKeys)]
          /\ UNCHANGED fsHist
          /\ UNCHANGED <<dir, inodes>>

\* Store.Cleanup: every .gob file that decodes to a record whose non-zero expiry
\* is before now - maxAge is removed; a file that does not decode is an error.
FsCleanup(t, maxAge, done, max) ==
  LET gone == {k \in GobKeys : /\ Decodes(inodes[dir[k].gob])
                               /\ inodes[dir[k].gob][1].expiry # 0
                               /\ inodes[dir[k].gob][1].expiry < now - maxAge}
      badOnes == {k \in GobKeys : ~Decodes(inodes[dir[k].gob])}
      d == [k \in StoreKeys |-> IF k \in gone THEN [dir[k] EXCEPT !.gob = noFile] ELSE dir[k]]
  IN /\ fsOps < max
     /\ fsthr[t].pc = "idle"
     /\ fsOps' = fsOps + 1
     /\ IF done THEN FsWalkCancelled(t, "cleanup")
        ELSE /\ dir' = d
             /\ inodes' = Reclaim(inodes, d, fsthr)
             /\ fsthr' = [fsthr EXCEPT ![t] = fsIdle]
             /\ fsLast' = [noFsCall EXCEPT !.op = "cleanup", !.touched = gone # {},
                                           !.n = Cardinality(gone),
                                           !.err = IF badOnes = {} THEN "nil" ELSE "decode"]
             /\ fsHist' = [k \in StoreKeys |-> noWrite]

\* A file that this store's Set did not write, and that does not decode as one
\* of its records, is at the key's path.
FsForeign(k) ==
  LET free == Inodes \ InUse(dir, fsthr)
      new == CHOOSE i \in free : \A j \in free : i <= j
      i == IF dir[k].gob # noFile THEN dir[k].gob ELSE new
  IN /\ \A t \in Threads : fsthr[t].pc = "idle"
     /\ dir[k].gob # noFile \/ free # {}
     /\ inodes[i] # foreign
     /\ dir' = [dir EXCEPT ![k].gob = i]
     /\ inodes' = [inodes EXCEPT ![i] = foreign]
     /\ fsHist' = [fsHist EXCEPT ![k] = noWrite]
     /\ UNCHANGED <<fsthr, fsLast, fsOps>>

FsAllIdle == \A t \in Threads : fsthr[t].pc = "idle"

\* What the store leaves alone: the cache and its clock.
cacheVars == <<capacity, shards, totalEntries, panicked, last, ops, thr, lock, hist>>

\* The store under a cache of one capacity: the store never looks at the cache.
InitFS == Init /\ capacity = MaxCapacity

\* Threads calling Set and Get on the same keys, their file operations interleaved.
NextFS ==
  \/ \E t \in Threads, k \in StoreKeys, v \in Values, n \in 1..MaxChunks :
       FsSetCall(t, k, v, 0, n, FALSE, MaxFsOps) /\ UNCHANGED <<cacheVars, coVars, now, vk, ev, built>>
  \/ \E t \in Threads, k \in StoreKeys :
       FsGetCall(t, k, FALSE, MaxFsOps) /\ UNCHANGED <<cacheVars, coVars, now, vk, ev, built>>
  \/ \E t \in Threads : FsCreate(t) /\ UNCHANGED <<cacheVars, coVars, now, vk, ev, built>>
  \/ \E t \in Threads : FsWrite(t) /\ UNCHANGED <<cacheVars, coVars, now, vk, ev, built>>
  \/ \E t \in Threads : FsRename(t) /\ UNCHANGED <<cacheVars, coVars, now, vk, ev, built>>
  \/ \E t \in Threads : FsOpen(t) /\ UNCHANGED <<cacheVars, coVars, now, vk, ev, built>>
  \/ \E t \in Threads : FsDecode(t) /\ UNCHANGED <<cacheVars, coVars, now, vk, ev, built>>
  \/ \E t \in Threads : FsRemoveBad(t) /\ UNCHANGED <<cacheVars, coVars, now, vk, ev, built>>

SpecFS == InitFS /\ [][NextFS]_vars

\* The clock of the store's host.
FsTick ==
  /\ now < MaxTime
  /\ now' = now + 1
  /\ UNCHANGED <<cacheVars, coVars, fsVars, vk, ev, built>>

\* Store calls one after another, with live and cancelled contexts, records with
\* and without expiry, the clock, and files of foreign content.
NextFSCalls ==
  \/ \E t \in Threads, k \in StoreKeys, x \in Times, done \in BOOLEAN :
       FsAllIdle /\ FsSetCall(t, k, 1, x, 1, done, MaxFsCalls) /\ UNCHANGED <<cacheVars, coVars, now, vk, ev, built>>
  \/ \E t \in Threads, k \in StoreKeys, done \in BOOLEAN :
       FsAllIdle /\ FsGetCall(t, k, done, MaxFsCalls) /\ UNCHANGED <<cacheVars, coVars, now, vk, ev, built>>
  \/ \E t \in Threads, k \in StoreKeys, done \in BOOLEAN :
       FsAllIdle /\ FsDelete(t, k, done, MaxFsCalls) /\ UNCHANGED <<cacheVars, coVars, now, vk, ev, built>>
  \/ \E t \in Threads, done \in BOOLEAN :
       FsAllIdle /\ FsFlush(t, done, MaxFsCalls) /\ UNCHANGED <<cacheVars, coVars, now, vk, ev, built>>
  \/ \E t \in Threads, done \in BOOLEAN :
       FsAllIdle /\ FsLen(t, done, MaxFsCalls) /\ UNCHANGED <<cacheVars, coVars, now, vk, ev, built>>
  \/ \E t \in Threads, done \in BOOLEAN, maxAge \in Times :
       FsAllIdle /\ FsCleanup(t, maxAge, done, MaxFsCalls) /\ UNCHANGED <<cacheVars, coVars, now, vk, ev, built>>
  \/ \E t \in Threads : FsCreate(t) /\ UNCHANGED <<cacheVars, coVars, now, vk, ev, built>>
  \/ \E t \in Threads : FsWrite(t) /\ UNCHANGED <<cacheVars, coVars, now, vk, ev, built>>
  \/ \E t \in Threads : FsRename(t) /\ UNCHANGED <<cacheVars, coVars, now, vk, ev, built>>
  \/ \E t \in Threads : FsOpen(t) /\ UNCHANGED <<cacheVars, coVars, now, vk, ev, built>>
  \/ \E t \in Threads : FsDecode(t) /\ UNCHANGED <<cacheVars, coVars, now, vk, ev, built>>
  \/ \E t \in Threads : FsRemoveBad(t) /\ UNCHANGED <<cacheVars, coVars, now, vk, ev, built>>
  \/ \E t \in Threads : FsRemoveExpired(t) /\ UNCHANGED <<cacheVars, coVars, now, vk, ev, built>>
  \/ \E k \in StoreKeys : FsForeign(k) /\ UNCHANGED <<cacheVars, coVars, now, vk, ev, built>>
  \/ FsAllIdle /\ FsTick

SpecFSCalls == InitFS /\ [][NextFSCalls]_vars

\* ------------------------------------------------------- tiered coordinator
\* The coordinator of section 4.4 over the sharded cache and an optional durable
\* store.  Its memory tier is the s3fifo above; its durable tier is a store of
\* the interface of section 6, whose calls may fail.

maxKeyLength == 127

\* The characters ValidateKey lets through.
keyChars ==
  {"a", "b", "c", "d", "e", "f", "g", "h", "i", "j", "k", "l", "m",
   "n", "o", "p", "q", "r", "s", "t", "u", "v", "w", "x", "y", "z",
   "A", "B", "C", "D", "E", "F", "G", "H", "I", "J", "K", "L", "M",
   "N", "O", "P", "Q", "R", "S", "T", "U", "V", "W", "X", "Y", "Z",
   "0", "1", "2", "3", "4", "5", "6", "7", "8", "9", "-", "_", ".",
   ":"}

\* fmt.Sprintf("%v", key) of the keys the coordinator is called with: two keys
\* the local-file store accepts, one with a path separator, one too long.
KeyText(k) ==
  IF k = 1 THEN <<"a">>
  ELSE IF k = 2 THEN <<"k", ":", "2">>
  ELSE IF k = 3 THEN <<".", ".", "/", "x">>
  ELSE [i \in 1..(maxKeyLength + 1) |-> "a"]

\* ValidateKey without the test of the length.
ValidateKey_noLength(s) ==
  IF \E i \in 1..Len(s) : s[i] \notin keyChars THEN "invalid character" ELSE "nil"

\* Store.ValidateKey
ValidateKey(s) ==
  IF Len(s) > maxKeyLength THEN "too long"
  ELSE IF \E i \in 1..Len(s) : s[i] \notin keyChars THEN "invalid character"
  ELSE "nil"

\* The coordinator validates through the store when it has one.
Rejected(k) == tier = "durable" /\ ValidateKey(KeyText(k)) # "nil"

\* The default of the defaultTTL option: no expiry.
defaultTTL == 0

\* expiry = now + (ttl # 0 ? ttl : defaultTTL); 0 is no expiry.
ExpiryOf(ttl) ==
  IF ttl # 0 THEN now + ttl ELSE IF defaultTTL # 0 THEN now + defaultTTL ELSE 0

\* The calls the memory tier may take in a run of n coordinator calls.
MemOps(n) == 2 * n

\* New(options): the coordinator is built memory-only or over a durable store.
CoNew(durable) ==
  /\ tier = "unset"
  /\ tier' = IF durable THEN "durable" ELSE "memory"
  /\ UNCHANGED <<store, queue, cothr, flight, coLast, coOps>>

\* A call can start: the coordinator is built and fewer than n calls were made.
CoRunning(t, n) ==
  /\ tier # "unset"
  /\ coOps < n
  /\ cothr[t].pc = "idle"

\* The call of thread t returns.
CoReturn(t, th, v, f, err, from) ==
  /\ cothr' = [th EXCEPT ![t] = coIdle]
  /\ coLast' = [op |-> th[t].op, key |-> th[t].key, value |-> v, found |-> f, err |-> err,
                ttl |-> th[t].ttl, from |-> from, storeErr |-> th[t].err, flown |-> th[t].runs > 0,
                waited |-> th[t].waited, runs |-> th[t].runs, loaded |-> th[t].loaded,
                prevOp |-> coLast.op, prevKey |-> coLast.key, prevValue |-> coLast.value,
                prevErr |-> coLast.err, prevTtl |-> coLast.ttl]

\* Set inserting into memory before it validates the key.
CoSet_insertsFirst(t, k, v, ttl, n) ==
  LET me == [cothr EXCEPT ![t] = [coIdle EXCEPT !.op = "set", !.key = k, !.value = v,
                                                !.expiry = ExpiryOf(ttl), !.ttl = ttl]]
  IN /\ CoRunning(t, n)
     /\ coOps' = coOps + 1
     /\ Set(k, v, ExpiryOf(ttl), MemOps(n))
     /\ IF Rejected(k) THEN CoReturn(t, me, v, FALSE, "validation", "none")
        ELSE IF tier = "durable"
        THEN cothr' = [me EXCEPT ![t].pc = "store"] /\ UNCHANGED coLast
        ELSE CoReturn(t, me, v, FALSE, "nil", "none")
     /\ UNCHANGED <<tier, store, queue, flight>>

\* Set: validation, the expiry, the insert into memory; with a store the write
\* to it follows.
CoSet(t, k, v, ttl, n) ==
  LET me == [cothr EXCEPT ![t] = [coIdle EXCEPT !.op = "set", !.key = k, !.value = v,
                                                !.expiry = ExpiryOf(ttl), !.ttl = ttl]]
  IN /\ CoRunning(t, n)
     /\ coOps' = coOps + 1
     /\ IF Rejected(k)
        THEN /\ CoReturn(t, me, v, FALSE, "validation", "none")
             /\ UNCHANGED <<capacity, shards, totalEntries, panicked, now, last, ops, thr, lock>>
        ELSE /\ Set(k, v, ExpiryOf(ttl), MemOps(n))
             /\ IF tier = "durable"
                THEN cothr' = [me EXCEPT ![t].pc = "store"] /\ UNCHANGED coLast
                ELSE CoReturn(t, me, v, FALSE, "nil", "none")
     /\ UNCHANGED <<tier, store, queue, flight>>

\* Set whose failed store write takes the value out of memory again.
CoStoreSet_rollsBack(t) ==
  LET me == cothr[t] IN
  /\ me.pc = "store"
  /\ \E fail \in BOOLEAN :
       IF fail
       THEN /\ Delete(me.key, ops + 1)
            /\ CoReturn(t, [cothr EXCEPT ![t].err = "store"], me.value, FALSE, "store", "none")
            /\ UNCHANGED store
       ELSE /\ store' = [store EXCEPT ![me.key] = [value |-> me.value, expiry |-> me.expiry]]
            /\ CoReturn(t, cothr, me.value, FALSE, "nil", "none")
            /\ UNCHANGED <<capacity, shards, totalEntries, panicked, now, last, ops, thr, lock>>
  /\ UNCHANGED <<tier, queue, flight, coOps>>

\* Set: the synchronous write to the store; its error is returned, the memory
\* insert stays.
CoStoreSet(t) ==
  LET me == cothr[t] IN
  /\ me.pc = "store"
  /\ \E fail \in BOOLEAN :
       IF fail
       THEN /\ CoReturn(t, [cothr EXCEPT ![t].err = "store"], me.value, FALSE, "store", "none")
            /\ UNCHANGED store
       ELSE /\ store' = [store EXCEPT ![me.key] = [value |-> me.value, expiry |-> me.expiry]]
            /\ CoReturn(t, cothr, me.value, FALSE, "nil", "none")
  /\ UNCHANGED <<capacity, shards, totalEntries, panicked, now, last, ops, thr, lock>>
  /\ UNCHANGED <<tier, queue, flight, coOps>>

\* The async-write queue is bounded: a write that finds it full is dropped.
Enqueue(q, w) == IF Len(q) < MaxQueue THEN Append(q, w) ELSE q

\* SetAsync leaving the memory insert to the background write.
CoSetAsync_onlyQueues(t, k, v, ttl, n) ==
  LET me == [cothr EXCEPT ![t] = [coIdle EXCEPT !.op = "setasync", !.key = k, !.value = v,
                                                !.expiry = ExpiryOf(ttl), !.ttl = ttl]]
  IN /\ CoRunning(t, n)
     /\ coOps' = coOps + 1
     /\ IF Rejected(k)
        THEN /\ CoReturn(t, me, v, FALSE, "validation", "none")
             /\ UNCHANGED queue
        ELSE /\ queue' = IF tier = "durable"
                         THEN Enqueue(queue, [key |-> k, value |-> v, expiry |-> ExpiryOf(ttl)])
                         ELSE queue
             /\ CoReturn(t, me, v, FALSE, "nil", "none")
     /\ UNCHANGED <<capacity, shards, totalEntries, panicked, now, last, ops, thr, lock>>
     /\ UNCHANGED <<tier, store, flight>>

\* SetAsync: validation and the insert into memory on the caller's thread; with
\* a store the write is queued; the call returns without waiting for it.
CoSetAsync(t, k, v, ttl, n) ==
  LET me == [cothr EXCEPT ![t] = [coIdle EXCEPT !.op = "setasync", !.key = k, !.value = v,
                                                !.expiry = ExpiryOf(ttl), !.ttl = ttl]]
  IN /\ CoRunning(t, n)
     /\ coOps' = coOps + 1
     /\ IF Rejected(k)
        THEN /\ CoReturn(t, me, v, FALSE, "validation", "none")
             /\ UNCHANGED <<capacity, shards, totalEntries, panicked, now, last, ops, thr, lock>>
             /\ UNCHANGED queue
        ELSE /\ Set(k, v, ExpiryOf(ttl), MemOps(n))
             /\ queue' = IF tier = "durable"
                         THEN Enqueue(queue, [key |-> k, value |-> v, expiry |-> ExpiryOf(ttl)])
                         ELSE queue
             /\ CoReturn(t, me, v, FALSE, "nil", "none")
     /\ UNCHANGED <<tier, store, flight>>

\* The background write of the head of the queue; its error is logged.
CoAsyncWrite ==
  /\ queue # <<>>
  /\ queue' = Tail(queue)
  /\ \E fail \in BOOLEAN :
       store' = IF fail THEN store
                ELSE [store EXCEPT ![Head(queue).key] =
                        [value |-> Head(queue).value, expiry |-> Head(queue).expiry]]
  /\ UNCHANGED <<capacity, shards, totalEntries, panicked, now, last, ops, thr, lock>>
  /\ UNCHANGED <<tier, cothr, flight, coLast, coOps>>

\* Get: the memory lookup; a hit returns, a miss goes to the store if there is one.
CoGet(t, k, n) ==
  LET me == [cothr EXCEPT ![t] = [coIdle EXCEPT !.op = "get", !.key = k]] IN
  /\ CoRunning(t, n)
  /\ coOps' = coOps + 1
  /\ Get(k, MemOps(n))
  /\ IF last'.found THEN CoReturn(t, me, last'.val, TRUE, "nil", "memory")
     ELSE IF tier = "durable"
     THEN cothr' = [me EXCEPT ![t].pc = "fetch"] /\ UNCHANGED coLast
     ELSE CoReturn(t, me, zeroV, FALSE, "nil", "none")
  /\ UNCHANGED <<tier, store, queue, flight>>

\* The store has a record of key k that has not expired.
Stored(k) ==
  /\ store[k].value # zeroV
  /\ store[k].expiry = 0 \/ now <= store[k].expiry

\* Get: store.Get; a record found and not expired is put into memory with its
\* expiry; a store error is returned.
CoFetch(t) ==
  LET k == cothr[t].key IN
  /\ cothr[t].pc = "fetch"
  /\ \E fail \in BOOLEAN :
       IF fail
       THEN /\ CoReturn(t, [cothr EXCEPT ![t].err = "store"], zeroV, FALSE, "store", "none")
            /\ UNCHANGED <<capacity, shards, totalEntries, panicked, now, last, ops, thr, lock>>
       ELSE IF Stored(k)
       THEN /\ Set(k, store[k].value, store[k].expiry, ops + 1)
            /\ CoReturn(t, cothr, store[k].value, TRUE, "nil", "store")
       ELSE /\ CoReturn(t, cothr, zeroV, FALSE, "nil", "none")
            /\ UNCHANGED <<capacity, shards, totalEntries, panicked, now, last, ops, thr, lock>>
  /\ UNCHANGED <<tier, store, queue, flight, coOps>>

CoAllIdle == \A t \in Threads : cothr[t].pc = "idle"

\* Coordinator calls one after another, the background write at any moment.
NextCo ==
  \/ \E d \in BOOLEAN : CoNew(d) /\ UNCHANGED <<cacheVars, now, fsVars, vk, ev, built>>
  \/ \E t \in Callers, k \in Keys, v \in Values, ttl \in 0..MaxTTL :
       CoAllIdle /\ CoSet(t, k, v, ttl, MaxCoCalls) /\ UNCHANGED <<hist, fsVars, vk, ev, built>>
  \/ \E t \in Callers : CoStoreSet(t) /\ UNCHANGED <<hist, fsVars, vk, ev, built>>
  \/ \E t \in Callers, k \in Keys, v \in Values :
       CoAllIdle /\ CoSetAsync(t, k, v, 0, MaxCoCalls) /\ UNCHANGED <<hist, fsVars, vk, ev, built>>
  \/ CoAsyncWrite /\ UNCHANGED <<hist, fsVars, vk, ev, built>>
  \/ \E t \in Callers, k \in Keys :
       CoAllIdle /\ CoGet(t, k, MaxCoCalls) /\ UNCHANGED <<hist, fsVars, vk, ev, built>>
  \/ \E t \in Callers : CoFetch(t) /\ UNCHANGED <<hist, fsVars, vk, ev, built>>

SpecCo == Init /\ [][NextCo]_vars

\* GetSet in which every caller that misses leads a flight of its own.
CoGetSetCall_alwaysLeads(t, k, n) ==
  LET me == [cothr EXCEPT ![t] = [coIdle EXCEPT !.op = "getset", !.key = k]] IN
  /\ CoRunning(t, n)
  /\ coOps' = coOps + 1
  /\ Get(k, MemOps(n))
  /\ IF last'.found
     THEN CoReturn(t, me, last'.val, TRUE, "nil", "memory") /\ UNCHANGED flight
     ELSE /\ flight' = [flight EXCEPT ![k].leader = t]
          /\ cothr' = [me EXCEPT ![t].pc = "lead"]
          /\ UNCHANGED coLast
  /\ UNCHANGED <<tier, store, queue>>

\* GetSet: a hit in memory returns; on a miss the caller enters the key's
\* flight, as its leader when there is none, as a waiter otherwise.
CoGetSetCall(t, k, n) ==
  LET me == [cothr EXCEPT ![t] = [coIdle EXCEPT !.op = "getset", !.key = k]] IN
  /\ CoRunning(t, n)
  /\ coOps' = coOps + 1
  /\ Get(k, MemOps(n))
  /\ IF last'.found
     THEN CoReturn(t, me, last'.val, TRUE, "nil", "memory") /\ UNCHANGED flight
     ELSE IF flight[k].leader = 0
     THEN /\ flight' = [flight EXCEPT ![k] = [noFlight EXCEPT !.leader = t]]
          /\ cothr' = [me EXCEPT ![t].pc = "lead"]
          /\ UNCHANGED coLast
     ELSE /\ flight' = [flight EXCEPT ![k].waiters = @ \cup {t}]
          /\ cothr' = [me EXCEPT ![t].pc = "wait", ![t].waited = TRUE]
          /\ UNCHANGED coLast
  /\ UNCHANGED <<tier, store, queue>>

\* GetSet, the leader: a record the store has is put into memory and is the
\* flight's result; otherwise the loader is next.
CoLead(t) ==
  LET k == cothr[t].key IN
  /\ cothr[t].pc = "lead"
  /\ IF tier = "durable" /\ Stored(k)
     THEN /\ Set(k, store[k].value, store[k].expiry, ops + 1)
          /\ cothr' = [cothr EXCEPT ![t].pc = "finish", ![t].value = store[k].value]
     ELSE /\ cothr' = [cothr EXCEPT ![t].pc = "load"]
          /\ UNCHANGED <<capacity, shards, totalEntries, panicked, now, last, ops, thr, lock>>
  /\ UNCHANGED <<tier, store, queue, flight, coLast, coOps>>

\* GetSet, the leader calls loader(): a value, or an error (zeroV here).
CoLoad(t) ==
  LET k == cothr[t].key IN
  /\ cothr[t].pc = "load"
  /\ \E r \in Values \cup {zeroV} :
       /\ flight' = [flight EXCEPT ![k].runs = @ + 1, ![k].loaded = r]
       /\ cothr' = [cothr EXCEPT ![t].value = r,
                                 ![t].err = IF r = zeroV THEN "loader" ELSE "nil",
                                 ![t].pc = IF r = zeroV THEN "finish" ELSE "save"]
  /\ UNCHANGED <<capacity, shards, totalEntries, panicked, now, last, ops, thr, lock>>
  /\ UNCHANGED <<tier, store, queue, coLast, coOps>>

\* GetSet, the leader stores the loaded value via Set: memory, then the store.
CoSave(t) ==
  LET me == cothr[t] IN
  /\ me.pc = "save"
  /\ Set(me.key, me.value, ExpiryOf(0), ops + 1)
  /\ store' = IF tier = "durable"
              THEN [store EXCEPT ![me.key] = [value |-> me.value, expiry |-> ExpiryOf(0)]]
              ELSE store
  /\ cothr' = [cothr EXCEPT ![t].pc = "finish"]
  /\ UNCHANGED <<tier, queue, flight, coLast, coOps>>

\* GetSet, the leader ends the flight: the waiters are handed its result and it
\* returns; a loader error is the result's error and nothing was cached.
CoFinish(t) ==
  LET me == cothr[t]
      f == flight[me.key]
      woken == [u \in Threads |->
                  IF u \in f.waiters /\ cothr[u].pc = "wait"
                  THEN [cothr[u] EXCEPT !.pc = "wake", !.value = me.value, !.err = me.err,
                                        !.runs = f.runs, !.loaded = f.loaded]
                  ELSE IF u = t THEN [me EXCEPT !.runs = f.runs, !.loaded = f.loaded]
                  ELSE cothr[u]]
  IN /\ me.pc = "finish"
     /\ flight' = [flight EXCEPT ![me.key] = noFlight]
     /\ CoReturn(t, woken, me.value, me.err = "nil", me.err,
                 IF f.runs > 0 THEN "loader" ELSE "store")
     /\ UNCHANGED <<capacity, shards, totalEntries, panicked, now, last, ops, thr, lock>>
     /\ UNCHANGED <<tier, store, queue, coOps>>

\* GetSet, a waiter returns the result of the flight it joined.
CoWake(t) ==
  /\ cothr[t].pc = "wake"
  /\ CoReturn(t, cothr, cothr[t].value, cothr[t].err = "nil", cothr[t].err, "flight")
  /\ UNCHANGED <<capacity, shards, totalEntries, panicked, now, last, ops, thr, lock>>
  /\ UNCHANGED <<tier, store, queue, flight, coOps>>

\* Threads calling GetSet on the same keys.
NextFlight ==
  \/ \E d \in BOOLEAN : CoNew(d) /\ UNCHANGED <<cacheVars, now, fsVars, vk, ev, built>>
  \/ \E t \in Threads, k \in FlightKeys :
       CoGetSetCall(t, k, MaxFlightCalls) /\ UNCHANGED <<hist, fsVars, vk, ev, built>>
  \/ \E t \in Threads : CoLead(t) /\ UNCHANGED <<hist, fsVars, vk, ev, built>>
  \/ \E t \in Threads : CoLoad(t) /\ UNCHANGED <<hist, fsVars, vk, ev, built>>
  \/ \E t \in Threads : CoSave(t) /\ UNCHANGED <<hist, fsVars, vk, ev, built>>
  \/ \E t \in Threads : CoFinish(t) /\ UNCHANGED <<hist, fsVars, vk, ev, built>>
  \/ \E t \in Threads : CoWake(t) /\ UNCHANGED <<hist, fsVars, vk, ev, built>>

SpecFlight == Init /\ [][NextFlight]_vars

\* ------------------------------------------------------------ ValidateKey
\* Textual keys: up to MaxTextLen characters, letters, digits, the four
\* punctuation marks ValidateKey names, separators and a space, alone or after
\* a run of letters that brings the key to the length limit.

textChars == {"a", "Z", "0", "-", "_", ".", ":", "/", "\\", " "}

Texts(n) == UNION {[1..m -> textChars] : m \in 0..n}

\* maxKeyLength - 1 letters.
padding == [i \in 1..(maxKeyLength - 1) |-> "a"]

\* A store under a cache of one capacity, no key built yet.
InitKeys ==
  /\ Init
  /\ capacity = MaxCapacity

\* A caller builds a key.
KeyChosen ==
  /\ vk.err = "none" /\ vk.text = <<>>
  /\ \E pad \in {<<>>, padding}, s \in Texts(MaxTextLen) :
       vk' = [text |-> pad \o s, err |-> "chosen"]
  /\ UNCHANGED <<cacheVars, now, fsVars, coVars, ev, built>>

\* Store.ValidateKey(key)
KeyValidated ==
  /\ vk.err = "chosen"
  /\ vk' = [vk EXCEPT !.err = ValidateKey(vk.text)]
  /\ UNCHANGED <<cacheVars, now, fsVars, coVars, ev, built>>

NextKeys == KeyChosen \/ KeyValidated

SpecKeys == InitKeys /\ [][NextKeys]_vars

\* ----------------------------------------------------------------- claims
\* The entries linked from a list's head along next.
RECURSIVE Chain(_, _, _)
Chain(S, e, seen) ==
  IF e = Nil \/ e \in seen THEN seen ELSE Chain(S, S.ent[e].next, seen \cup {e})

Linked(S, q) == Chain(S, S[q].head, {})

OnDeathRow(S) == {S.deathRow[i] : i \in 0..(deathRowLen - 1)} \ {Nil}

RECURSIVE SumLens(_)
SumLens(I) ==
  IF I = {} THEN 0
  ELSE LET i == CHOOSE j \in I : TRUE
       IN shards[i].small.len + shards[i].main.len + SumLens(I \ {i})

Present(k) == shards[shard(k)].entries[k] # Nil

ShardEmpty(S) ==
  /\ \A k \in Keys : S.entries[k] = Nil
  /\ S.small = entryList
  /\ S.main = entryList
  /\ S.ghostActive = newBloomFilter
  /\ S.ghostAging = newBloomFilter
  /\ S.ghostFreqRng = ghostFreqRing
  /\ \A i \in 0..(deathRowLen - 1) : S.deathRow[i] = Nil

\* C1: the live entry count, as the global counter tracks it, never exceeds the
\* configured capacity.
C1_LiveWithinCapacity == totalEntries <= capacity

\* C2: every key of a shard's map refers to an entry that is in exactly one of
\* Small, Main and death row, and an entry in a death-row slot is linked in
\* neither Small nor Main.
C2_OnePlacePerKey ==
  \A s \in DOMAIN shards :
    LET S == shards[s]
        inS == Linked(S, "small")
        inM == Linked(S, "main")
        inD == OnDeathRow(S)
    IN /\ \A k \in Keys :
            LET e == S.entries[k] IN
            e # Nil =>
              Cardinality({p \in {"s", "m", "d"} :
                             \/ p = "s" /\ e \in inS
                             \/ p = "m" /\ e \in inM
                             \/ p = "d" /\ e \in inD}) = 1
       /\ \A e \in inD : e \notin inS /\ e \notin inM

\* C3: whenever no call is in progress, totalEntries equals the sum over the
\* shards of small.len + main.len.
C3_CounterIsSumOfLens == AllIdle => totalEntries = SumLens(DOMAIN shards)

\* C4: no sequence of set, get, delete and flush makes a shard operation panic.
C4_NoOperationPanics == ~panicked

\* C5: a get made at a time later than the non-zero expiryNano of the key's entry
\* reports not found, wherever the entry is.
C5_ExpiredGetMisses == (last.op = "get" /\ last.expired) => ~last.found

\* C8: in any state a set (no expiry) returns, and a get that directly follows
\* a set of the same key returns the value of that set with found = true,
\* whatever the key held before.
C8_LatestSetIsRead ==
  /\ last.op = "set" => ~panicked
  /\ (last.op = "get" /\ last.prevOp = "set") => (last.found /\ last.val = last.prevVal)

\* C9: after delete(k) the key is out of the map, a get of a key that is out of
\* the map reports not found, only set(k) puts k back, and a delete of a key that
\* is not in the map changes nothing and does not fail.
C9_DeletedKeyStaysAbsent ==
  /\ [](last.op = "delete" => ~Present(last.key))
  /\ [](last.op = "get" /\ last.where = "absent" => ~last.found)
  /\ [][\A k \in Keys : (~Present(k) /\ Present(k)') => (last'.op = "set" /\ last'.key = k)]_vars
  /\ [][(ops' # ops /\ last'.op = "delete" /\ last'.where = "absent")
          => (shards' = shards /\ totalEntries' = totalEntries /\ ~panicked')]_vars

\* C9's case: a get right after the delete of a key that held a value missed.
C9_Witness ==
  last.op = "get" /\ last.prevOp = "delete" /\ last.over # zeroV /\ ~last.found

\* C10: after flush every shard has an empty map, empty queues, empty ghost
\* filters, a zeroed ghost ring and an empty death row, the live count is 0, and
\* a get that directly follows reports not found.
C10_FlushEmptiesAll ==
  /\ last.op = "flush" => (totalEntries = 0 /\ \A s \in DOMAIN shards : ShardEmpty(shards[s]))
  /\ (last.op = "get" /\ last.prevOp = "flush") => ~last.found

\* C10's case: a flush of a cache that held at least two keys has just returned.
C10_Witness == last.op = "flush" /\ last.val >= 2

\* C6: the freq counter of every entry stays within 0..maxFreq at all times.
C6_FreqWithinCap ==
  \A s \in DOMAIN shards : \A i \in EntIds :
    shards[s].ent[i].freq >= 0 /\ shards[s].ent[i].freq <= maxFreq

\* C7: for every entry in the map peakFreq >= freq; stated for the instants at
\* which no call is in progress, when no hit is between its two stores.
C7_PeakAtLeastFreq ==
  AllIdle =>
    \A s \in DOMAIN shards : \A k \in Keys :
      LET e == shards[s].entries[k] IN
      e # Nil => shards[s].ent[e].peakFreq >= shards[s].ent[e].freq

\* The keys set so far.
WrittenKeys == {k \in Keys : hist.written[k] # zeroV}

\* Only sets and gets have run, on at most capacity distinct keys.
Filling == hist.calm /\ Cardinality(WrittenKeys) <= capacity

\* C11: while the live count is below the capacity a set of a new key puts it at
\* Small's tail, adds one to the live count and moves no other key; and while at
\* most capacity distinct keys have been set, with no delete and no flush, each
\* of them is linked in Small or Main with its latest value and a get of it
\* returns that value.
C11_WarmupKeepsEveryKey ==
  /\ [](Filling =>
          \A k \in WrittenKeys :
            /\ Present(k)
            /\ Where(shards[shard(k)], k) \in {"small", "main"}
            /\ Held(shards[shard(k)], k) = hist.written[k])
  /\ []((Filling /\ last.op = "get" /\ last.key \in WrittenKeys) =>
          (last.found /\ last.val = hist.written[last.key]))
  /\ [][(ops' # ops /\ last'.op = "set" /\ last'.where = "absent"
           /\ totalEntries < capacity) =>
          LET k == last'.key
              S == shards'[shard(k)]
          IN /\ ~panicked'
             /\ S.entries[k] # Nil
             /\ S.small.tail = S.entries[k]
             /\ totalEntries' = totalEntries + 1
             /\ \A j \in Keys \ {k} :
                  Where(shards'[shard(j)], j) = Where(shards[shard(j)], j)]_vars

\* C11's case: capacity distinct keys were set, one of them twice with different
\* values, and a get of it has just returned.
C11_Witness ==
  /\ Filling /\ capacity = MaxCapacity /\ Cardinality(WrittenKeys) = capacity
  /\ last.op = "get" /\ last.found /\ last.over # zeroV /\ last.over # last.val

\* The shards whose map holds key k.
ShardsHolding(k) == {s \in DOMAIN shards : shards[s].entries[k] # Nil}

EntriesOf(k) ==
  LET S == shards[shard(k)] IN
  {i \in Linked(S, "small") \cup Linked(S, "main") \cup OnDeathRow(S) : S.ent[i].key = k}

\* C13: once all sets have returned, a key that was set is in the map with one
\* entry, its value and expiryNano are those of one single call, and a get of
\* it finds it.
C13_WritersSerialize ==
  /\ AllIdle =>
       \A k \in WrittenKeys :
         /\ Present(k)
         /\ Cardinality(EntriesOf(k)) = 1
         /\ LET S == shards[shard(k)] IN
            /\ S.ent[S.entries[k]].value \in Values
            /\ S.ent[S.entries[k]].expiryNano = S.ent[S.entries[k]].value
  /\ (last.op = "get" /\ last.key \in WrittenKeys) => (last.found /\ last.val \in Values)

\* C13's case: a set of a key was called while another set of that key was
\* running, and all sets have returned.
C13_Witness == AllIdle /\ hist.overlap /\ last.op = "set"

\* C18: under any interleaving of Store calls, every Get that opens the key's
\* file decodes a complete record, all of it written by one Set: no Get ends in
\* a record that is partial or mixed.
C18_GetDecodesOneSet ==
  (fsLast.op = "get" /\ fsLast.opened) => (~fsLast.bad /\ fsLast.found)

\* C19: a Get whose record does not decode is a miss, returns no error to the
\* caller, and leaves no file at the key's path.
C19_BadRecordIsAMiss ==
  (fsLast.op = "get" /\ fsLast.bad) =>
    (~fsLast.found /\ fsLast.err = "nil" /\ dir[fsLast.key].gob = noFile)

\* C20: every Store call made with a context that is already cancelled returns
\* the cancellation error and creates, overwrites or removes no record.
C20_CancelledCallDoesNothing ==
  (fsLast.op # "none" /\ fsLast.done) => (fsLast.err = "canceled" /\ ~fsLast.touched)

\* C14: a Get made right after a SetAsync(k, v, ttl = 0) that returned nil
\* returns (v, true), with a durable store and without one.
C14_GetAfterSetAsync ==
  (/\ coLast.op = "get"
   /\ coLast.prevOp = "setasync" /\ coLast.prevKey = coLast.key
   /\ coLast.prevErr = "nil" /\ coLast.prevTtl = 0)
  => (coLast.found /\ coLast.value = coLast.prevValue /\ coLast.err = "nil")

\* The Get found in memory, over a durable store, what a SetAsync had just put
\* there in place of another value, the write to the store still queued.
C14_Witness ==
  /\ coLast.op = "get" /\ coLast.prevOp = "setasync" /\ coLast.prevKey = coLast.key
  /\ coLast.prevErr = "nil" /\ coLast.found /\ coLast.from = "memory"
  /\ tier = "durable" /\ queue # <<>>
  /\ store[coLast.key].value # coLast.value

\* A step that is a whole Set or SetAsync of a key the store's ValidateKey rejects.
RejectedCall ==
  /\ coOps' = coOps + 1
  /\ cothr' = cothr
  /\ coLast'.op \in {"set", "setasync"}
  /\ tier = "durable" /\ ValidateKey(KeyText(coLast'.key)) # "nil"

\* C15: a Set or SetAsync of a key the store's ValidateKey rejects returns a
\* validation error and changes neither memory nor the store, and a Get of the
\* key that follows reports not found.
C15_RejectedKeyChangesNothing ==
  /\ [][RejectedCall =>
          /\ coLast'.err = "validation"
          /\ shards' = shards /\ totalEntries' = totalEntries
          /\ store' = store /\ queue' = queue]_vars
  /\ []((/\ coLast.op = "get"
         /\ coLast.prevOp \in {"set", "setasync"} /\ coLast.prevKey = coLast.key
         /\ coLast.prevErr = "validation")
        => ~coLast.found)

\* A Get after the Set of a key with a path separator was refused, the cache
\* holding another key.
C15_Witness ==
  /\ coLast.op = "get" /\ coLast.prevOp = "set" /\ coLast.prevErr = "validation"
  /\ coLast.prevKey = coLast.key /\ coLast.key = 3
  /\ ~coLast.found /\ totalEntries > 0

\* A step in which the store's Set has failed and the coordinator's Set returns.
FailedWrite ==
  \E t \in Threads :
    cothr[t].pc = "store" /\ cothr'[t].pc = "idle" /\ coLast'.storeErr = "store"

\* C17: when the store's Set fails for a key that passed validation, the
\* synchronous Set returns that error, the value stays in memory, and a Get of
\* the key returns (v, true) without the store.
C17_FailedStoreKeepsMemory ==
  /\ [][FailedWrite =>
          /\ coLast'.op = "set" /\ coLast'.err = "store"
          /\ \E e \in EntIds :
               /\ shards'[shard(coLast'.key)].entries[coLast'.key] = e
               /\ shards'[shard(coLast'.key)].ent[e].value = coLast'.value]_vars
  /\ []((/\ coLast.op = "get"
         /\ coLast.prevOp = "set" /\ coLast.prevKey = coLast.key
         /\ coLast.prevErr = "store")
        => (/\ coLast.found /\ coLast.value = coLast.prevValue
            /\ coLast.from = "memory" /\ coLast.err = "nil"))

\* The Get returned from memory the value whose store write had failed, the
\* store holding nothing for the key.
C17_Witness ==
  /\ coLast.op = "get" /\ coLast.prevOp = "set" /\ coLast.prevErr = "store"
  /\ coLast.prevKey = coLast.key /\ coLast.found /\ coLast.from = "memory"
  /\ store[coLast.key].value = zeroV

\* C16: concurrent GetSet calls for the same absent key make the loader run
\* exactly once, and every one of the callers returns that run's result.
C16_LoaderRunsOnce ==
  (coLast.op = "getset" /\ coLast.flown) =>
    (/\ coLast.runs = 1
     /\ coLast.value = coLast.loaded
     /\ coLast.err = (IF coLast.loaded = zeroV THEN "loader" ELSE "nil")
     /\ coLast.found = (coLast.loaded # zeroV))

\* A caller that waited on another's flight returned the value its loader gave.
C16_Witness ==
  /\ coLast.op = "getset" /\ coLast.flown /\ coLast.waited
  /\ coLast.runs = 1 /\ coLast.value = coLast.loaded /\ coLast.value # zeroV

\* The characters of this module's keys that the local-file store allows: a
\* letter of each case, a digit, dash, underscore, period and colon.
plainChars == {"a", "Z", "0", "-", "_", ".", ":"}

Validated == vk.err \notin {"none", "chosen"}

\* C21: ValidateKey rejects every key with a character outside A-Z, a-z, 0-9,
\* '-', '_', '.', ':' and every key longer than 127 bytes, and accepts every
\* non-empty key of at most 127 bytes made of those characters only; so a key
\* with '/' or '\' is rejected.
C21_ValidateKeyRule ==
  Validated =>
    LET n == Len(vk.text)
        odd == \E i \in 1..n : vk.text[i] \notin plainChars
    IN /\ (odd \/ n > 127) => vk.err # "nil"
       /\ (~odd /\ n >= 1 /\ n <= 127) => vk.err = "nil"
       /\ (\E i \in 1..n : vk.text[i] \in {"/", "\\"}) => vk.err # "nil"

\* A key of exactly 127 allowed bytes was accepted.
C21_Witness ==
  /\ Validated /\ Len(vk.text) = 127 /\ vk.err = "nil"
  /\ vk.text[127] = ":"

\* C22: ValidateKey returns an error for the key whose textual form is empty.
C22_EmptyKeyRejected ==
  (Validated /\ Len(vk.text) = 0) => vk.err # "nil"

\* A step in which a Store.Get returns.
GetReturned ==
  \E t \in Threads : fsthr[t].op = "get" /\ fsthr[t].pc # "idle" /\ fsthr'[t].pc = "idle"

C24_GetReturnsLatestSet ==
  [][(/\ GetReturned
      /\ fsHist[fsLast'.key].value # zeroV
      /\ fsHist[fsLast'.key].expiry = 0 \/ fsHist[fsLast'.key].expiry > now)
     => (/\ fsLast'.found /\ fsLast'.err = "nil"
         /\ fsLast'.value = fsHist[fsLast'.key].value
         /\ fsLast'.expiry = fsHist[fsLast'.key].expiry)]_vars

\* A Get returned what the second of two Sets of its key had written.
C24_Witness ==
  /\ fsLast.op = "get" /\ fsLast.found
  /\ fsHist[fsLast.key].over
  /\ fsLast.value = fsHist[fsLast.key].value /\ fsLast.expiry = fsHist[fsLast.key].expiry
  /\ fsLast.expiry # 0

\* C25: when gets of the same death-row key overlap, each of them reports a miss
\* or returns the value stored for the key: none reports found=true with a value
\* that was never stored, such as the zero value.
C25_ResurrectingGetsReturnStored ==
  (last.op = "get" /\ last.found) => last.val # zeroV

\* The shard and the entry of the key of the last call.
LastShard == shards[shard(last.key)]

LastEntry == LastShard.ent[LastShard.entries[last.key]]

\* A step that is a get of a key whose entry is on death row.
RowGet == ops' = ops + 1 /\ last'.op = "get" /\ last'.where = "deathRow"

\* C26: a get of a key whose entry is on death row clears the entry's death-row
\* slot, makes onDeathRow and inSmall false and freq and peakFreq 3, appends the
\* entry at Main's tail, adds exactly 1 to the live count, and returns the
\* stored value with found=true.
C26_GetResurrects ==
  /\ []((last.op = "get" /\ last.where = "deathRow") =>
          /\ LastShard.entries[last.key] # Nil
          /\ \A i \in 0..(deathRowLen - 1) : LastShard.deathRow[i] # LastShard.entries[last.key]
          /\ ~LastEntry.onDeathRow /\ ~LastEntry.inSmall
          /\ LastEntry.freq = 3 /\ LastEntry.peakFreq = 3
          /\ LastShard.main.tail = LastShard.entries[last.key]
          /\ LastEntry.next = Nil
          /\ last.found /\ last.val = LastEntry.value /\ last.val # zeroV)
  /\ [][RowGet => totalEntries' = totalEntries + 1]_vars

\* A get brought a key back from death row into a Main that held another entry.
C26_Witness ==
  /\ last.op = "get" /\ last.where = "deathRow" /\ last.found
  /\ LastShard.main.len >= 2
  /\ LastShard.main.tail = LastShard.entries[last.key]

\* ------------------------------------------------- the eviction loops, stepwise
admit_ignoresRing(W, key, value, expiryNano, hash, pcap) ==
  LET e == newEntry(W)
      h == IF hash = 0 THEN hashInt64(key) ELSE hash
      W0 == [W EXCEPT !.ent[e] = [entry EXCEPT !.key = key, !.value = value,
                                               !.expiryNano = expiryNano, !.hash = h]]
      W1 == [W0 EXCEPT !.warmupComplete = TRUE]
      inGhost == Contains(W1.ghostActive, h) \/ Contains(W1.ghostAging, h)
  IN [W1 EXCEPT !.ent[e].inSmall = ~inGhost]

\* setWithHash from the new entry to the eviction choice: the entry, its hash,
\* warmupComplete, and the queue the entry is admitted to.
admit(W, key, value, expiryNano, hash, pcap) ==
  LET e == newEntry(W)
      h == IF hash = 0 THEN hashInt64(key) ELSE hash
      W0 == [W EXCEPT !.ent[e] = [entry EXCEPT !.key = key, !.value = value,
                                               !.expiryNano = expiryNano, !.hash = h]]
      W1 == [W0 EXCEPT !.warmupComplete = TRUE]
      inGhost == Contains(W1.ghostActive, h) \/ Contains(W1.ghostAging, h)
      peak == lookup(W1.ghostFreqRng, h)
  IN IF inGhost /\ peak.ok
     THEN [W1 EXCEPT !.ent[e].inSmall = FALSE,
                     !.ent[e].freq = peak.freq,
                     !.ent[e].peakFreq = peak.freq]
     ELSE [W1 EXCEPT !.ent[e].inSmall = ~inGhost]

\* The loop setWithHash enters when the cache is full.
evictionChoice(W) ==
  IF W.main.len > 0 /\ W.small.len <= W.smallThresh THEN "main"
  ELSE IF W.small.len > 0 THEN "small"
  ELSE "end"

\* setWithHash after the eviction: the entry joins its queue and the map.
insert(W, e) ==
  LET W4 == pushBack(W, IF W.ent[e].inSmall THEN "small" ELSE "main", e)
  IN [W4 EXCEPT !.entries[W.ent[e].key] = e, !.total = W4.total + 1]

smallPass_promotesAtOne(W) ==
  LET mcap == (W.capacity * 9) \div 10 IN
  IF W.small.len <= 0 THEN [W |-> W, to |-> "return", row |-> 0]
  ELSE LET e == W.small.head IN
    IF e = Nil THEN [W |-> [W EXCEPT !.panic = TRUE], to |-> "return", row |-> 0]
    ELSE IF W.ent[e].freq < 1
    THEN [W |-> sendToDeathRow(remove(W, "small", e), e), to |-> "return", row |-> 1]
    ELSE LET W1 == pushBack([remove(W, "small", e) EXCEPT !.ent[e].freq = 0,
                                                          !.ent[e].inSmall = FALSE],
                            "main", e)
         IN [W |-> W1, to |-> IF W1.main.len > mcap THEN "main" ELSE "small", row |-> 0]

\* One pass of evictFromSmall's loop, up to its call of evictFromMain.  to: the
\* function returns, the loop goes round, or evictFromMain is called; row: the
\* entries the pass sent to death row.
smallPass(W) ==
  LET mcap == (W.capacity * 9) \div 10 IN
  IF W.small.len <= 0 THEN [W |-> W, to |-> "return", row |-> 0]
  ELSE LET e == W.small.head IN
    IF e = Nil THEN [W |-> [W EXCEPT !.panic = TRUE], to |-> "return", row |-> 0]
    ELSE IF W.ent[e].freq < 2
    THEN [W |-> sendToDeathRow(remove(W, "small", e), e), to |-> "return", row |-> 1]
    ELSE LET W1 == pushBack([remove(W, "small", e) EXCEPT !.ent[e].freq = 0,
                                                          !.ent[e].inSmall = FALSE],
                            "main", e)
         IN [W |-> W1, to |-> IF W1.main.len > mcap THEN "main" ELSE "small", row |-> 0]

mainPass_neverDemotes(W) ==
  IF W.main.len <= 0 THEN [W |-> W, to |-> "return", row |-> 0]
  ELSE LET e == W.main.head IN
    IF e = Nil THEN [W |-> [W EXCEPT !.panic = TRUE], to |-> "return", row |-> 0]
    ELSE LET f == W.ent[e].freq IN
      IF f = 0
      THEN [W |-> sendToDeathRow(remove(W, "main", e), e), to |-> "return", row |-> 1]
      ELSE [W |-> pushBack([remove(W, "main", e) EXCEPT !.ent[e].freq = f - 1], "main", e),
            to |-> "main", row |-> 0]

mainPass_keepsFreq(W) ==
  IF W.main.len <= 0 THEN [W |-> W, to |-> "return", row |-> 0]
  ELSE LET e == W.main.head IN
    IF e = Nil THEN [W |-> [W EXCEPT !.panic = TRUE], to |-> "return", row |-> 0]
    ELSE LET f == W.ent[e].freq IN
      IF f = 0
      THEN LET W1 == remove(W, "main", e) IN
           IF W1.ent[e].peakFreq >= demoteAtPeak
           THEN [W |-> pushBack([W1 EXCEPT !.ent[e].freq = 1, !.ent[e].inSmall = TRUE],
                                "small", e),
                 to |-> "return", row |-> 0]
           ELSE [W |-> sendToDeathRow(W1, e), to |-> "return", row |-> 1]
      ELSE [W |-> pushBack(remove(W, "main", e), "main", e), to |-> "main", row |-> 0]

\* One pass of evictFromMain's loop.
mainPass(W) ==
  IF W.main.len <= 0 THEN [W |-> W, to |-> "return", row |-> 0]
  ELSE LET e == W.main.head IN
    IF e = Nil THEN [W |-> [W EXCEPT !.panic = TRUE], to |-> "return", row |-> 0]
    ELSE LET f == W.ent[e].freq IN
      IF f = 0
      THEN LET W1 == remove(W, "main", e) IN
           IF W1.ent[e].peakFreq >= demoteAtPeak
           THEN [W |-> pushBack([W1 EXCEPT !.ent[e].freq = 1, !.ent[e].inSmall = TRUE],
                                "small", e),
                 to |-> "return", row |-> 0]
           ELSE [W |-> sendToDeathRow(W1, e), to |-> "return", row |-> 1]
      ELSE [W |-> pushBack([remove(W, "main", e) EXCEPT !.ent[e].freq = f - 1], "main", e),
            to |-> "main", row |-> 0]

\* One more hit of key k.
Bump(k) == [ev.hits EXCEPT ![k].ins = IF @ < 2 THEN @ + 1 ELSE @,
                           ![k].small = IF @ < 2 THEN @ + 1 ELSE @]

\* The sends to death row so far, and for each slot the number of the send
\* that filled it, and for each key its peakFreq at its latest true eviction:
\* a pass that sent row entries (0 or 1) from W fills slot deathRowPos and
\* truly evicts the entry that was there.
Sent(W, row) ==
  LET old == W.deathRow[W.deathRowPos] IN
  IF row = 0 THEN ev.sends
  ELSE [n |-> ev.sends.n + 1,
        at |-> [ev.sends.at EXCEPT ![W.deathRowPos] = ev.sends.n + 1],
        peak |-> IF old = Nil THEN ev.sends.peak
                 ELSE [ev.sends.peak EXCEPT ![W.ent[old].key] = W.ent[old].peakFreq]]

\* The pass of evictFromMain from W to W2 demoted Main's head: the hits of its
\* key since it joined Small start again.
Demote(W, W2) ==
  IF W.main.len > 0 /\ W.main.head # Nil /\ W2.ent[W.main.head].inSmall
  THEN [ev.hits EXCEPT ![W.ent[W.main.head].key].small = 0,
                       ![W.ent[W.main.head].key].demoted = TRUE]
  ELSE ev.hits

\* The set of key k goes through the eviction loops: the key is absent and the
\* cache is full.
Evicts(k) == shards[shard(k)].entries[k] = Nil /\ totalEntries >= capacity

\* s3fifo.set of a key that is present or is inserted without eviction.
EvSet(k, v, n) ==
  /\ ev.pc = "idle"
  /\ ~Evicts(k)
  /\ Set(k, v, 0, n)
  /\ ev' = [ev EXCEPT !.hits = IF shards[shard(k)].entries[k] = Nil
                                THEN [ev.hits EXCEPT ![k] = noHits] ELSE Bump(k)]

\* s3fifo.get
EvGet(k, n) ==
  /\ ev.pc = "idle"
  /\ Get(k, n)
  /\ ev' = [ev EXCEPT !.hits = IF last'.found THEN Bump(k) ELSE ev.hits]

\* s3fifo.del
EvDelete(k, n) ==
  /\ ev.pc = "idle"
  /\ Delete(k, n)
  /\ UNCHANGED ev

\* setWithHash of an absent key into a full cache, up to the eviction choice.
EvBegin(k, v, n) ==
  LET s == shard(k)
      W == admit(Enter(s), k, v, 0, 0, capacity)
  IN /\ ev.pc = "idle"
     /\ Running(n)
     /\ Evicts(k)
     /\ FreeIds(shards[s]) # {}
     /\ ev' = [ev EXCEPT !.pc = evictionChoice(W), !.W = W, !.e = newEntry(Enter(s)),
                         !.key = k, !.value = v, !.ret = "end",
                         !.nested = FALSE, !.sent = 0]
     /\ UNCHANGED <<capacity, shards, totalEntries, panicked, now, last, ops, thr, lock>>

\* One pass of evictFromSmall's loop.
EvSmall ==
  LET r == smallPass(ev.W) IN
  /\ ev.pc = "small"
  /\ ev' = [ev EXCEPT !.W = r.W,
                      !.pc = IF r.to = "return" THEN "end" ELSE r.to,
                      !.ret = IF r.to = "main" THEN "small" ELSE ev.ret,
                      !.nested = ev.nested \/ r.to = "main",
                      !.sent = ev.sent + r.row,
                      !.sends = Sent(ev.W, r.row)]
  /\ UNCHANGED <<capacity, shards, totalEntries, panicked, now, last, ops, thr, lock>>

\* One pass of evictFromMain's loop; on return the caller goes on.
EvMain ==
  LET r == mainPass(ev.W) IN
  /\ ev.pc = "main"
  /\ ev' = [ev EXCEPT !.W = r.W,
                      !.pc = IF r.to = "main" THEN "main"
                             ELSE IF r.W.panic THEN "end" ELSE ev.ret,
                      !.sent = ev.sent + r.row,
                      !.sends = Sent(ev.W, r.row),
                      !.hits = Demote(ev.W, r.W)]
  /\ UNCHANGED <<capacity, shards, totalEntries, panicked, now, last, ops, thr, lock>>

\* setWithHash after the eviction, or the panic of the eviction.
EvEnd ==
  LET s == shard(ev.key) IN
  /\ ev.pc = "end"
  /\ Commit(s, IF ev.W.panic THEN ev.W ELSE insert(ev.W, ev.e),
            Call("set", ev.key, ev.value, FALSE))
  /\ ev' = evIdle([ev.hits EXCEPT ![ev.key] = noHits], ev.sends)

\* Sequential calls; a set that evicts goes pass by pass.
NextEvict ==
  \/ \E k \in EvKeys : EvSet(k, 1, MaxEvOps) /\ UNCHANGED <<hist, fsVars, coVars, vk, built>>
  \/ \E k \in EvKeys : EvGet(k, MaxEvOps) /\ UNCHANGED <<hist, fsVars, coVars, vk, built>>
  \/ \E k \in EvKeys : EvDelete(k, MaxEvOps) /\ UNCHANGED <<hist, fsVars, coVars, vk, built>>
  \/ \E k \in EvKeys : EvBegin(k, 1, MaxEvOps) /\ UNCHANGED <<hist, fsVars, coVars, vk, built>>
  \/ EvSmall /\ UNCHANGED <<hist, fsVars, coVars, vk, built>>
  \/ EvMain /\ UNCHANGED <<hist, fsVars, coVars, vk, built>>
  \/ EvEnd /\ UNCHANGED <<hist, fsVars, coVars, vk, built>>

SpecEvict == Init /\ [][NextEvict]_vars

\* Calls that make key 1 hot, send it to death row and then push it off death
\* row into the ghost: each round brings key 2 back from death row, deletes
\* key 3 and sets it again, which sends key 2 to the next death-row slot.
RECURSIVE Rounds(_)
Rounds(n) ==
  IF n = 0 THEN <<>>
  ELSE <<<<"get", 2>>, <<"delete", 3>>, <<"set", 3>>>> \o Rounds(n - 1)

script ==
  <<<<"set", 1>>, <<"get", 1>>, <<"get", 1>>, <<"get", 1>>, <<"get", 1>>,
    <<"set", 2>>, <<"set", 3>>>> \o Rounds(deathRowLen - 1)

\* The call is the next call of the script, or the script is over.
Scripted(op, k) == ops < Len(script) => script[ops + 1] = <<op, k>>

GhostOps == Len(script) + MaxGhostOps

InitGhost == Init /\ capacity = 1

\* The calls of the script, then any calls; a set that evicts goes pass by pass.
NextGhost ==
  \/ \E k \in GhostKeys : Scripted("set", k) /\ EvSet(k, 1, GhostOps) /\ UNCHANGED <<hist, fsVars, coVars, vk, built>>
  \/ \E k \in GhostKeys : Scripted("get", k) /\ EvGet(k, GhostOps) /\ UNCHANGED <<hist, fsVars, coVars, vk, built>>
  \/ \E k \in GhostKeys : Scripted("delete", k) /\ EvDelete(k, GhostOps) /\ UNCHANGED <<hist, fsVars, coVars, vk, built>>
  \/ \E k \in GhostKeys : Scripted("set", k) /\ EvBegin(k, 1, GhostOps) /\ UNCHANGED <<hist, fsVars, coVars, vk, built>>
  \/ EvSmall /\ UNCHANGED <<hist, fsVars, coVars, vk, built>>
  \/ EvMain /\ UNCHANGED <<hist, fsVars, coVars, vk, built>>
  \/ EvEnd /\ UNCHANGED <<hist, fsVars, coVars, vk, built>>

SpecGhost == InitGhost /\ [][NextGhost]_vars

\* The script, then calls that bring key 1 back from the ghost, hit it once
\* (peakFreq 5), send it to death row and push it off death row a second time.
scriptTwice ==
  script \o
  <<<<"set", 1>>, <<"get", 1>>,
    <<"get", 2>>, <<"delete", 2>>, <<"set", 2>>,
    <<"get", 3>>, <<"delete", 3>>, <<"set", 3>>,
    <<"delete", 3>>, <<"set", 3>>>> \o Rounds(deathRowLen - 1)

ScriptedTwice(op, k) == ops < Len(scriptTwice) => scriptTwice[ops + 1] = <<op, k>>

ReturnOps == Len(scriptTwice) + MaxReturnOps

\* The calls of the longer script, then any calls.
NextReturn ==
  \/ \E k \in GhostKeys : ScriptedTwice("set", k) /\ EvSet(k, 1, ReturnOps) /\ UNCHANGED <<hist, fsVars, coVars, vk, built>>
  \/ \E k \in GhostKeys : ScriptedTwice("get", k) /\ EvGet(k, ReturnOps) /\ UNCHANGED <<hist, fsVars, coVars, vk, built>>
  \/ \E k \in GhostKeys : ScriptedTwice("delete", k) /\ EvDelete(k, ReturnOps) /\ UNCHANGED <<hist, fsVars, coVars, vk, built>>
  \/ \E k \in GhostKeys : ScriptedTwice("set", k) /\ EvBegin(k, 1, ReturnOps) /\ UNCHANGED <<hist, fsVars, coVars, vk, built>>
  \/ EvSmall /\ UNCHANGED <<hist, fsVars, coVars, vk, built>>
  \/ EvMain /\ UNCHANGED <<hist, fsVars, coVars, vk, built>>
  \/ EvEnd /\ UNCHANGED <<hist, fsVars, coVars, vk, built>>

SpecReturn == InitGhost /\ [][NextReturn]_vars

\* The passes of one set add up to setWithHash.
PassesAreSetWithHash ==
  [][(ev.pc = "end" /\ ev'.pc = "idle") =>
       shards' = [shards EXCEPT ![shard(ev.key)] =
                    Leave(setWithHash(Enter(shard(ev.key)), ev.key, ev.value, 0, 0, capacity))]]_vars

\* The pass of evictFromSmall that is about to run inspects an entry.
SmallInspects == ev.pc = "small" /\ ev.W.small.len > 0 /\ ev.W.small.head # Nil

\* Entry e is in a slot of the death row of working state W.
OnRow(W, e) == W.ent[e].onDeathRow /\ e \in OnDeathRow(W)

\* The pass leaves freq and inSmall of every entry but e as they were.
OnlyTouches(e) ==
  \A i \in EntIds \ {e} : /\ ev'.W.ent[i].freq = ev.W.ent[i].freq
                          /\ ev'.W.ent[i].inSmall = ev.W.ent[i].inSmall
                          /\ ev'.W.ent[i].peakFreq = ev.W.ent[i].peakFreq

\* What a pass of evictFromSmall does with Small's head e, whose freq is f.
SmallPassRule(e, f) ==
  /\ OnlyTouches(e)
  /\ e \notin Linked(ev'.W, "small")
  /\ f < 2 => /\ OnRow(ev'.W, e)
              /\ e \notin Linked(ev'.W, "main")
              /\ ev'.pc = "end"
  /\ f >= 2 => /\ ~ev'.W.ent[e].onDeathRow
               /\ ev'.W.main.tail = e
               /\ ev'.W.ent[e].freq = 0
               /\ ~ev'.W.ent[e].inSmall

MainInspects == ev.pc = "main" /\ ev.W.main.len > 0 /\ ev.W.main.head # Nil

\* C28: a pass of evictFromMain decides on Main's head only: a head with
\* freq 0 and peakFreq >= 4 is moved to Small's tail with freq 1 and inSmall
\* true and is not sent to death row; a head with freq 0 and peakFreq < 4 is
\* sent to death row; a head with freq > 0 is re-queued at Main's tail with
\* freq decremented by exactly 1.
C28_MainPassDecidesOnHead ==
  [][MainInspects =>
       LET e == ev.W.main.head
           f == ev.W.ent[e].freq
           peak == ev.W.ent[e].peakFreq
       IN /\ OnlyTouches(e)
          /\ (f = 0 /\ peak >= 4) =>
               /\ e \notin Linked(ev'.W, "main")
               /\ ev'.W.small.tail = e
               /\ ev'.W.ent[e].freq = 1
               /\ ev'.W.ent[e].inSmall
               /\ ~ev'.W.ent[e].onDeathRow /\ e \notin OnDeathRow(ev'.W)
               /\ ev'.pc = ev.ret
          /\ (f = 0 /\ peak < 4) =>
               /\ OnRow(ev'.W, e)
               /\ e \notin Linked(ev'.W, "main")
               /\ e \notin Linked(ev'.W, "small")
               /\ ev'.pc = ev.ret
          /\ f > 0 =>
               /\ ev'.W.main.tail = e
               /\ ev'.W.ent[e].freq = f - 1
               /\ ~ev'.W.ent[e].inSmall
               /\ ~ev'.W.ent[e].onDeathRow
               /\ ev'.pc = "main"]_vars

\* A pass of evictFromMain has demoted an entry to Small's tail after it
\* re-queued another one.
C28_Witness ==
  /\ ev.pc \in {"small", "end"}
  /\ ev.W.small.tail # Nil
  /\ ev.W.ent[ev.W.small.tail].freq = 1
  /\ ev.W.ent[ev.W.small.tail].peakFreq >= 4
  /\ ev.hits[ev.W.ent[ev.W.small.tail].key].demoted
  /\ ev.hits[ev.W.ent[ev.W.small.tail].key].small = 0
  /\ ev.W.main.len >= 1

\* C29: when a promotion inside evictFromSmall makes Main exceed 90% of the
\* shard capacity, evictFromSmall calls evictFromMain once and then stops: it
\* inspects no further Small entry, and one set call sends at most one entry to
\* death row.
C29_StopsAfterEvictFromMain ==
  /\ (ev.pc = "small" /\ ev.nested) => ev.W.small.len <= 0
  /\ ev.sent <= 1

\* Sequential calls on fewer keys; a pass that can run does run in the end: the
\* goroutine that runs the set is scheduled.
NextLoops ==
  \/ \E k \in LoopKeys : EvSet(k, 1, MaxLoopOps) /\ UNCHANGED <<hist, fsVars, coVars, vk, built>>
  \/ \E k \in LoopKeys : EvGet(k, MaxLoopOps) /\ UNCHANGED <<hist, fsVars, coVars, vk, built>>
  \/ \E k \in LoopKeys : EvDelete(k, MaxLoopOps) /\ UNCHANGED <<hist, fsVars, coVars, vk, built>>
  \/ \E k \in LoopKeys : EvBegin(k, 1, MaxLoopOps) /\ UNCHANGED <<hist, fsVars, coVars, vk, built>>
  \/ EvSmall /\ UNCHANGED <<hist, fsVars, coVars, vk, built>>
  \/ EvMain /\ UNCHANGED <<hist, fsVars, coVars, vk, built>>
  \/ EvEnd /\ UNCHANGED <<hist, fsVars, coVars, vk, built>>

\* What EvEnd does to ev: the set returns.
SetReturns == ev.pc = "end" /\ ev' = evIdle([ev.hits EXCEPT ![ev.key] = noHits], ev.sends)

SpecLoops ==
  /\ Init /\ [][NextLoops]_vars
  /\ WF_vars(EvSmall /\ UNCHANGED <<hist, fsVars, coVars, vk, built>>)
  /\ WF_vars(EvMain /\ UNCHANGED <<hist, fsVars, coVars, vk, built>>)
  /\ WF_ev(SetReturns)

\* C30: every set call terminates: the loops of evictFromSmall and
\* evictFromMain always exit, whatever the queues, freq and peakFreq values
\* and capacity, also when evictFromSmall promotes entries into Main and the
\* nested evictFromMain demotes entries back into Small.
C30_SetTerminates == (ev.pc # "idle") ~> (ev.pc = "idle")

\* A set is back from an evictFromSmall that promoted an entry, called
\* evictFromMain, which demoted an entry, and went on.
C30_Witness ==
  /\ ev.pc = "idle" /\ last.op = "set"
  /\ \E k \in LoopKeys : ev.hits[k].demoted /\ LastShard.entries[k] # Nil
                        /\ LastShard.ent[LastShard.entries[k]].onDeathRow
\* The step in which the set of a new key into a full cache returns.
FullSetReturns == ev.pc = "end" /\ ~ev.W.panic /\ ev'.pc = "idle"

\* C31: when the cache is full, a set of a new key whose hash is in either
\* ghost filter puts the entry at Main's tail with freq = peakFreq = the value
\* the ghost ring holds for the hash (0 if it holds none); a new key whose hash
\* is in neither filter goes to Small's tail with freq 0.
C31_GhostAdmission ==
  [][FullSetReturns =>
       LET S == shards[shard(ev.key)]
           T == shards'[shard(ev.key)]
           h == hashInt64(ev.key)
           ring == lookup(S.ghostFreqRng, h)
           e == T.entries[ev.key]
       IN /\ e = ev.e
          /\ T.ent[e].key = ev.key /\ T.ent[e].hash = h
          /\ T.ent[e].next = Nil /\ ~T.ent[e].onDeathRow
          /\ IF Contains(S.ghostActive, h) \/ Contains(S.ghostAging, h)
             THEN /\ T.main.tail = e /\ ~T.ent[e].inSmall
                  /\ T.ent[e].freq = (IF ring.ok THEN ring.freq ELSE 0)
                  /\ T.ent[e].peakFreq = T.ent[e].freq
             ELSE /\ T.small.tail = e /\ T.ent[e].inSmall
                  /\ T.ent[e].freq = 0 /\ T.ent[e].peakFreq = 0]_vars

\* A set has brought a key back from the ghost with the freq the ring held.
C31_Witness ==
  /\ ev.pc = "idle" /\ last.op = "set" /\ last.where = "absent"
  /\ LastShard.entries[last.key] # Nil
  /\ LastShard.main.tail = LastShard.entries[last.key]
  /\ LastEntry.freq >= 2 /\ LastEntry.peakFreq = LastEntry.freq
  /\ ev.hits[last.key].ins = 0

\* The hashes the ghost of S remembers.
Ghost(S) == S.ghostActive.bits \cup S.ghostAging.bits

\* The pass that is about to run calls sendToDeathRow.
RowSend == ev.pc \in {"small", "main"} /\ ev'.sent = ev.sent + 1

TrueEviction == RowSend /\ ev.W.deathRow[ev.W.deathRowPos] # Nil

\* The entry that a true eviction removes is the one that has been on death
\* row longest among those present.
EvictsOldest ==
  [][TrueEviction =>
       \A i \in 0..(deathRowLen - 1) :
          ev.W.deathRow[i] # Nil => ev.sends.at[ev.W.deathRowPos] <= ev.sends.at[i]]_vars

\* C33: a shard's death row holds at most 8 entries; sendToDeathRow truly
\* evicts an entry only on overflow, when all 8 slots are occupied, and the
\* entry it then evicts is the one that has been on death row longest among
\* those present.
C33_EvictsOnlyOnOverflow ==
  /\ [](\A s \in DOMAIN shards : Cardinality(OnDeathRow(shards[s])) <= 8)
  /\ [][TrueEviction => \A i \in 0..(deathRowLen - 1) : ev.W.deathRow[i] # Nil]_vars
  /\ EvictsOldest

\* The true eviction that is about to run brings the active ghost filter to
\* ghostCap entries.
Rotates ==
  /\ TrueEviction
  /\ ~Contains(ev.W.ghostActive, ev.W.ent[ev.W.deathRow[ev.W.deathRowPos]].hash)
  /\ ev.W.ghostActive.entries + 1 >= ev.W.ghostCap

C35_RestoresLastPeak ==
  [][(/\ FullSetReturns
      /\ hashInt64(ev.key) \in Ghost(shards[shard(ev.key)])
      /\ lookup(shards[shard(ev.key)].ghostFreqRng, hashInt64(ev.key)).ok) =>
       LET T == shards'[shard(ev.key)] IN
       /\ T.ent[T.entries[ev.key]].freq = ev.sends.peak[ev.key]
       /\ T.ent[T.entries[ev.key]].peakFreq = ev.sends.peak[ev.key]]_vars

\* A get has just returned a miss.
GetMisses == ops' = ops + 1 /\ last'.op = "get" /\ ~last'.found

\* C36: a get that reports a miss, for an absent key or for an entry whose
\* expiry has passed, leaves every shard (map, queues, entries with their freq
\* and peakFreq, ghost filters and ring, death row) and the live count as they
\* were; the expired entry is still the one its key maps to.
C36_MissChangesNothing ==
  [][GetMisses => /\ shards' = shards
                  /\ totalEntries' = totalEntries
                  /\ panicked' = panicked]_vars

\* A get has just missed a key whose entry is in the map, linked in a queue
\* and past its expiry.
C36_Witness ==
  /\ last.op = "get" /\ ~last.found
  /\ LET S == shards[shard(last.key)]
         e == S.entries[last.key] IN
     /\ e # Nil
     /\ ~S.ent[e].onDeathRow
     /\ S.ent[e].expiryNano # 0 /\ now > S.ent[e].expiryNano
     /\ e \in Linked(S, "small") \cup Linked(S, "main")

\* Rounds that send keys 3 and 4 in turn to the next death-row slot: each
\* brings key y back from death row, deletes it and sets it again, which sends
\* the other key from Small to death row.
RECURSIVE Turns(_, _, _)
Turns(n, y, z) ==
  IF n = 0 THEN <<>>
  ELSE <<<<"get", y>>, <<"delete", y>>, <<"set", y>>>> \o Turns(n - 1, z, y)

\* Key 1 is sent to death-row slot 0, deleted while it is there and set again;
\* the new entry of key 1 goes to death row and comes back into Main; then
\* keys 3 and 4 are sent to the slots that follow, all around the ring.
scriptStale ==
  <<<<"set", 1>>, <<"set", 2>>, <<"delete", 1>>, <<"set", 1>>,
    <<"set", 3>>, <<"get", 1>>, <<"set", 4>>>> \o Turns(deathRowLen - 2, 3, 4)

ScriptedStale(op, k) == ops < Len(scriptStale) => scriptStale[ops + 1] = <<op, k>>

StaleOps == Len(scriptStale) + MaxStaleOps

\* The calls of scriptStale, then any calls.
NextStale ==
  \/ \E k \in EvKeys : ScriptedStale("set", k) /\ EvSet(k, 1, StaleOps) /\ UNCHANGED <<hist, fsVars, coVars, vk, built>>
  \/ \E k \in EvKeys : ScriptedStale("get", k) /\ EvGet(k, StaleOps) /\ UNCHANGED <<hist, fsVars, coVars, vk, built>>
  \/ \E k \in EvKeys : ScriptedStale("delete", k) /\ EvDelete(k, StaleOps) /\ UNCHANGED <<hist, fsVars, coVars, vk, built>>
  \/ \E k \in EvKeys : ScriptedStale("set", k) /\ EvBegin(k, 1, StaleOps) /\ UNCHANGED <<hist, fsVars, coVars, vk, built>>
  \/ EvSmall /\ UNCHANGED <<hist, fsVars, coVars, vk, built>>
  \/ EvMain /\ UNCHANGED <<hist, fsVars, coVars, vk, built>>
  \/ EvEnd /\ UNCHANGED <<hist, fsVars, coVars, vk, built>>

SpecStale == InitGhost /\ [][NextStale]_vars

\* C37: in every reachable state every entry linked in Small or Main is the
\* entry its key maps to in the map of its shard.
C37_LinkedIsMapped ==
  \A s \in DOMAIN shards :
    \A e \in Linked(shards[s], "small") \cup Linked(shards[s], "main") :
      shards[s].entries[shards[s].ent[e].key] = e

\* The entries linked in Small or Main, over all shards.
LinkedEntries ==
  {p \in (DOMAIN shards) \X EntIds :
     p[2] \in Linked(shards[p[1]], "small") \cup Linked(shards[p[1]], "main")}

\* C38: when a flush has run together with set calls on other threads and all
\* calls have returned, the live counter is the number of entries linked in
\* Small and Main over all shards.
C38_FlushCountsConcurrentSets ==
  (AllIdle /\ last.op = "flush") => totalEntries = Cardinality(LinkedEntries)

RaceKeys == 1..NumRaceKeys

\* Threads calling Set, with and without expiry, and Get on the same key, their
\* file operations interleaved, and the clock.
NextFSRace ==
  \/ \E t \in Threads, k \in RaceKeys, x \in Times, n \in 1..MaxChunks :
       FsSetCall(t, k, 1, x, n, FALSE, MaxRaceOps) /\ UNCHANGED <<cacheVars, coVars, now, vk, ev, built>>
  \/ \E t \in Threads, k \in RaceKeys :
       FsGetCall(t, k, FALSE, MaxRaceOps) /\ UNCHANGED <<cacheVars, coVars, now, vk, ev, built>>
  \/ \E t \in Threads : FsCreate(t) /\ UNCHANGED <<cacheVars, coVars, now, vk, ev, built>>
  \/ \E t \in Threads : FsWrite(t) /\ UNCHANGED <<cacheVars, coVars, now, vk, ev, built>>
  \/ \E t \in Threads : FsRename(t) /\ UNCHANGED <<cacheVars, coVars, now, vk, ev, built>>
  \/ \E t \in Threads : FsOpen(t) /\ UNCHANGED <<cacheVars, coVars, now, vk, ev, built>>
  \/ \E t \in Threads : FsDecode(t) /\ UNCHANGED <<cacheVars, coVars, now, vk, ev, built>>
  \/ \E t \in Threads : FsRemoveBad(t) /\ UNCHANGED <<cacheVars, coVars, now, vk, ev, built>>
  \/ \E t \in Threads : FsRemoveExpired(t) /\ UNCHANGED <<cacheVars, coVars, now, vk, ev, built>>
  \/ FsTick

SpecFSRace == InitFS /\ [][NextFSRace]_vars

\* The file at the path of key k holds a whole record that has not expired.
LiveRecord(k) ==
  /\ dir[k].gob # noFile
  /\ Decodes(inodes[dir[k].gob])
  /\ inodes[dir[k].gob][1].expiry = 0 \/ inodes[dir[k].gob][1].expiry >= now

\* C39: a Get that runs together with a Set of the same key never removes the
\* record that Set wrote: when Get's os.Remove runs, a file at the path that
\* holds a whole, unexpired record stays.
C39_GetKeepsNewRecord ==
  [][\A t \in Threads :
       (/\ fsthr[t].pc \in {"rmbad", "rmexpired"}
        /\ fsthr'[t].pc = "idle"
        /\ LiveRecord(fsthr[t].key)) => dir'[fsthr[t].key].gob = dir[fsthr[t].key].gob]_vars

\* n halved j times.
RECURSIVE halve(_, _)
halve(n, j) == IF j = 0 THEN n ELSE halve(n \div 2, j - 1)

\* The sizes a cache is configured with: around every power of two an int
\* holds, and the non-positive ones next to 1.
Sizes ==
  UNION {{halve(intMax, j) - d : d \in 0..MaxSizeSlack} \cup {halve(intMax, j + 1) + 1} :
           j \in 0..MaxSizeShift}

\* A caller fills in the config and the runtime has its GOMAXPROCS.
Configure ==
  /\ built.pc = "none"
  /\ \E size \in Sizes, procs \in 1..MaxProcs :
       built' = [noBuild EXCEPT !.pc = "cfg", !.size = size, !.procs = procs]
  /\ UNCHANGED <<cacheVars, now, fsVars, coVars, vk, ev>>

\* newS3FIFO(cfg): size, n, scap and the fields of the cache.
newS3FIFO ==
  /\ built.pc = "cfg"
  /\ built' = [built EXCEPT !.pc = "built",
                            !.numShards = numShardsOf(built.size, built.procs),
                            !.shardMask = numShardsOf(built.size, built.procs) - 1,
                            !.capacity = sizeOf(built.size),
                            !.scap = scapOf(built.size, built.procs)]
  /\ UNCHANGED <<cacheVars, now, fsVars, coVars, vk, ev>>

NextNew == Configure \/ newS3FIFO

SpecNew == InitKeys /\ [][NextNew]_vars

\* C40: for every size and parallelism the shard count N is a power of two
\* with 1 <= N <= 2048, shardMask = N - 1, the per-shard capacity is
\* ceil(S / N) >= 1 and N x per-shard capacity >= S, where S is the size, or
\* 16384 for a size <= 0.
C40_ShardCountAndCapacity ==
  built.pc = "built" =>
    LET S == IF built.size <= 0 THEN defaultSize ELSE built.size
        N == built.numShards
    IN /\ built.capacity = S
       /\ 1 <= N /\ N <= maxShards
       /\ roundPow2(N) = N
       /\ built.shardMask = N - 1
       /\ built.scap = (S \div N) + (IF S % N = 0 THEN 0 ELSE 1)
       /\ built.scap >= 1
       /\ N * built.scap >= S

====
